---- MODULE Spec2Model ----
(***************************************************************************)
(* Model of the goal-directed tool orchestration core of AI Helper:        *)
(*   ai_helper/tools.py  - Tool, ToolResult, ToolRegistry                  *)
(*   ai_helper/agent.py  - Agent.execute, the Ollama (ReAct) loop and the  *)
(*                         rule-based planner                              *)
(*                                                                         *)
(* A Python str is a finite sequence of chunks (TLA+ strings); the empty   *)
(* str is << >>.  Concatenation is \o and (a in b) is Contains(b, a).       *)
(* A Python value of unknown type (a decoded JSON value) is a tagged pair  *)
(* <<tag, payload>>.  Wall-clock fields (elapsed_s, total_elapsed_s) and   *)
(* ToolResult.data are not modelled.                                       *)
(***************************************************************************)
EXTENDS Integers, Sequences, FiniteSets, TLC

VARIABLES
    tools,        \* ToolRegistry._tools : name -> Tool
    max_steps,    \* Agent.max_steps
    pc,           \* position of the caller / of Agent.execute
    goal,         \* argument of the current execute call
    use_ollama,   \* local of execute: outcome of _ollama_available()
    result,       \* the AgentResult of the current execute call
    messages,     \* local of _run_ollama_loop: conversation history
    step_num,     \* loop variable of _run_ollama_loop
    pending,      \* raw reply and parsed action between chat and invoke
    ended,        \* how the current run left its planner
    exc,          \* exception propagating out of the current call, or "none"
    chatLog,      \* history: one record per OllamaClient.chat call of the run
    invokeLog,    \* history: one record per ToolRegistry.invoke call
    handlerCalls, \* history: number of handler calls of the run / operation
    lastOp,       \* last registry operation and what it returned
    callLog,      \* history: the probe and the planners started by the call
    other         \* the locals and history of a second call, while suspended

vars == <<tools, max_steps, pc, goal, use_ollama, result, messages, step_num,
          pending, ended, exc, chatLog, invokeLog, handlerCalls, lastOp, callLog,
          other>>

(***************************************************************************)
(* Bounds of the model                                                     *)
(***************************************************************************)
MaxStepLimit == 2      \* Agent.max_steps ranges over 0..MaxStepLimit

(***************************************************************************)
(* Text and value helpers                                                  *)
(***************************************************************************)
Contains(hay, needle) ==
    \E i \in 0..(Len(hay) - Len(needle)) :
        SubSeq(hay, i + 1, i + Len(needle)) = needle

PyStr(s) == <<"str", s>>
PyNum(n) == <<"num", n>>
PyNone == <<"none", 0>>
PyList(l) == <<"list", l>>
PyDict(d) == <<"dict", d>>

EmptyDict == [k \in {} |-> PyNone]

\* bool(v)
Truthy(v) ==
    CASE v[1] = "str" -> v[2] # <<>>
      [] v[1] = "num" -> v[2] # 0
      [] v[1] = "none" -> FALSE
      [] v[1] = "list" -> v[2] # <<>>
      [] v[1] = "dict" -> DOMAIN v[2] # {}

\* str(v) inside an f-string
StrOf(v) ==
    CASE v[1] = "str" -> v[2]
      [] v[1] = "num" -> <<"5">>
      [] v[1] = "none" -> <<"None">>
      [] v[1] = "list" -> <<"[", "]">>
      [] v[1] = "dict" -> <<"{", "}">>

\* repr(v), the {v!r} conversion; the names of the model are made of
\* printable characters, for which repr only adds the quotes
Repr(v) ==
    IF v[1] = "str" THEN <<"'">> \o v[2] \o <<"'">> ELSE StrOf(v)

RECURSIVE Join(_, _)
Join(seq, sep) ==
    IF seq = <<>> THEN <<>>
    ELSE IF Len(seq) = 1 THEN seq[1]
    ELSE seq[1] \o sep \o Join(Tail(seq), sep)

(***************************************************************************)
(* tools.py: ToolParam, ToolResult, Tool                                   *)
(***************************************************************************)
ToolParam(n, t, r) == [name |-> n, type |-> t, required |-> r]

ToolResult(tn, s, o, e) == [tool_name |-> tn, success |-> s, output |-> o, error |-> e]

NoResult == ToolResult(PyNone, FALSE, <<>>, <<>>)

\* ToolResult.__str__
ToolResultStr(r) ==
    IF r.success THEN r.output
    ELSE <<"[ERROR from ">> \o StrOf(r.tool_name) \o <<"] ">> \o r.error

AllKeys == {"path", "content", "query", "root", "extensions", "command", "args",
            "input_data", "timeout", "name_filter", "prompt", "model", "url",
            "text", "answer", "zzz", "name", "self"}

\* A handler: the keywords its signature accepts, those without a default,
\* and the tool name it writes into the results it builds.
Handler(id, accepts, needs) ==
    [id |-> id, accepts |-> accepts, needs |-> needs, rname |-> <<id>>]

Tool(name, category, params, accepts, needs) ==
    [name |-> <<name>>, description |-> <<"about ", name>>, params |-> params,
     handler |-> Handler(name, accepts, needs), category |-> category]

\* What a handler does once its arguments are bound
Behaviours == {"ok", "empty", "fail", "raise"}

HandlerReturn(h, beh) ==
    CASE beh = "ok" -> ToolResult(PyStr(h.rname), TRUE, <<"out:", h.id>>, <<>>)
      [] beh = "empty" -> ToolResult(PyStr(h.rname), TRUE, <<>>, <<>>)
      [] beh = "fail" -> ToolResult(PyStr(h.rname), FALSE, <<>>, <<"failed:", h.id>>)

Outcome(e, r, c) == [exc |-> e, ret |-> r, called |-> c]

MissingRequiredFirstOnly(tool, kwargs) ==
    {i \in 1..Len(tool.params) :
        i = 1 /\ tool.params[i].required /\ tool.params[i].name \notin DOMAIN kwargs}

MissingRequired(tool, kwargs) ==
    {i \in 1..Len(tool.params) :
        tool.params[i].required /\ tool.params[i].name \notin DOMAIN kwargs}

FirstMissing(tool, kwargs) ==
    CHOOSE i \in MissingRequired(tool, kwargs) :
        \A j \in MissingRequired(tool, kwargs) : i <= j

\* the try/except around self.handler(**kwargs)
CallHandler(tool, kwargs, beh) ==
    LET h == tool.handler IN
    IF ~(DOMAIN kwargs \subseteq h.accepts /\ h.needs \subseteq DOMAIN kwargs)
    THEN Outcome("none",
                 ToolResult(PyStr(tool.name), FALSE, <<>>,
                            <<"TypeError", ": ", "bad call of ", h.id, "\n", "Traceback">>),
                 TRUE)
    ELSE IF beh = "raise"
    THEN Outcome("none",
                 ToolResult(PyStr(tool.name), FALSE, <<>>,
                            <<"ValueError", ": ", "boom", "\n", "Traceback">>),
                 TRUE)
    ELSE Outcome("none", HandlerReturn(h, beh), TRUE)

\* Tool.invoke
ToolInvoke(tool, kwargs, beh) ==
    IF MissingRequired(tool, kwargs) # {}
    THEN Outcome("none",
                 ToolResult(PyStr(tool.name), FALSE, <<>>,
                            <<"Missing required parameter: ">>
                              \o Repr(PyStr(<<tool.params[FirstMissing(tool, kwargs)].name>>))),
                 FALSE)
    ELSE CallHandler(tool, kwargs, beh)

(***************************************************************************)
(* tools.py: ToolRegistry                                                  *)
(***************************************************************************)
\* Python's str ordering on the chunks that are ever sorted (names, categories)
SortOrder == <<"ai", "alias", "append_file", "ask_ollama", "echo", "files", "general",
               "gpu_stats", "launch_program", "list_ai_apps", "list_directory",
               "list_ollama_models", "list_programs", "programs", "read_file",
               "run_program", "search_files", "system", "system_snapshot",
               "test", "write_file">>

ChunkRank(c) == CHOOSE i \in 1..Len(SortOrder) : SortOrder[i] = c

\* a < b on str
TextLess(a, b) ==
    \E k \in 1..(Len(b)) :
        /\ \A j \in 1..(k - 1) : j <= Len(a) /\ a[j] = b[j]
        /\ \/ k = Len(a) + 1
           \/ k <= Len(a) /\ ChunkRank(a[k]) < ChunkRank(b[k])

RECURSIVE SortedNames(_)
\* sorted(names)
SortedNames(S) ==
    IF S = {} THEN <<>>
    ELSE LET m == CHOOSE x \in S : \A y \in S \ {x} : TextLess(x, y)
         IN <<m>> \o SortedNames(S \ {m})

\* key=lambda t: (t.category, t.name)
ToolKeyLess(a, b) ==
    \/ TextLess(<<a.category>>, <<b.category>>)
    \/ a.category = b.category /\ TextLess(a.name, b.name)

RECURSIVE SortedTools(_)
SortedTools(S) ==
    IF S = {} THEN <<>>
    ELSE LET m == CHOOSE x \in S : \A y \in S \ {x} : ToolKeyLess(x, y)
         IN <<m>> \o SortedTools(S \ {m})

RegistryRegisterKeepFirst(tls, tool) ==
    [n \in DOMAIN tls \cup {tool.name} |-> IF n \in DOMAIN tls THEN tls[n] ELSE tool]

\* ToolRegistry.register
RegistryRegister(tls, tool) ==
    [n \in DOMAIN tls \cup {tool.name} |-> IF n = tool.name THEN tool ELSE tls[n]]

RegistryUnregisterAll(tls, name) ==
    [n \in {} |-> tls[n]]

\* ToolRegistry.unregister: the map afterwards
RegistryUnregister(tls, name) ==
    [n \in DOMAIN tls \ {name} |-> tls[n]]

\* ToolRegistry.get: the tool, or None
RegistryGet(tls, name) ==
    IF name \in DOMAIN tls THEN <<"tool", tls[name]>> ELSE PyNone

\* ToolRegistry.list_tools; category is None or a str
ListTools(tls, category) ==
    LET all == {tls[n] : n \in DOMAIN tls}
        sel == IF Truthy(category) THEN {t \in all : PyStr(<<t.category>>) = category}
               ELSE all
    IN SortedTools(sel)

\* Tool.describe
Describe(tool) ==
    tool.name \o <<"(">>
      \o Join([i \in 1..Len(tool.params) |->
                  <<tool.params[i].name, ": ", tool.params[i].type>>
                    \o (IF tool.params[i].required THEN <<>> ELSE <<"?">>)],
              <<", ">>)
      \o <<") - ">> \o tool.description

DescribeAllFilesOnly(tls) ==
    LET lt == ListTools(tls, PyStr(<<"files">>))
    IN Join(<<<<"Available tools:">>>> \o [i \in 1..Len(lt) |-> <<"  ">> \o Describe(lt[i])],
            <<"\n">>)

\* ToolRegistry.describe_all
DescribeAll(tls) ==
    LET lt == ListTools(tls, PyNone)
    IN Join(<<<<"Available tools:">>>> \o [i \in 1..Len(lt) |-> <<"  ">> \o Describe(lt[i])],
            <<"\n">>)

UnknownToolErrorNoNames(tls, name) ==
    <<"Unknown tool: ">> \o Repr(name) \o <<". ", "Available: ">>

UnknownToolError(tls, name) ==
    <<"Unknown tool: ">> \o Repr(name) \o <<". ", "Available: ">>
      \o Join(SortedNames(DOMAIN tls), <<", ">>)

\* ToolRegistry.invoke(name, **kwargs)
RegistryInvoke(tls, name, kwargs, beh) ==
    IF {"self", "name"} \cap DOMAIN kwargs # {}
    THEN Outcome("TypeError", NoResult, FALSE)   \* multiple values for argument
    ELSE IF name[1] \in {"list", "dict"}
    THEN Outcome("TypeError", NoResult, FALSE)   \* unhashable key in _tools.get
    ELSE IF ~(name[1] = "str" /\ name[2] \in DOMAIN tls)
    THEN Outcome("none", ToolResult(name, FALSE, <<>>, UnknownToolError(tls, name)), FALSE)
    ELSE ToolInvoke(tls[name[2]], kwargs, beh)

(***************************************************************************)
(* tools.py: _register_builtin_tools                                       *)
(***************************************************************************)
BuiltinTools == {
    Tool("read_file", "files", <<ToolParam("path", "str", TRUE)>>, {"path"}, {"path"}),
    Tool("write_file", "files",
         <<ToolParam("path", "str", TRUE), ToolParam("content", "str", TRUE)>>,
         {"path", "content"}, {"path", "content"}),
    Tool("append_file", "files",
         <<ToolParam("path", "str", TRUE), ToolParam("content", "str", TRUE)>>,
         {"path", "content"}, {"path", "content"}),
    Tool("search_files", "files",
         <<ToolParam("query", "str", FALSE), ToolParam("root", "str", FALSE),
           ToolParam("extensions", "str", FALSE), ToolParam("content", "str", FALSE)>>,
         {"query", "root", "extensions", "content"}, {}),
    Tool("list_directory", "files", <<ToolParam("path", "str", FALSE)>>, {"path"}, {}),
    Tool("run_program", "programs",
         <<ToolParam("command", "str", TRUE), ToolParam("args", "str", FALSE),
           ToolParam("input_data", "str", FALSE), ToolParam("timeout", "float", FALSE)>>,
         {"command", "args", "input_data", "timeout"}, {"command"}),
    Tool("launch_program", "programs",
         <<ToolParam("command", "str", TRUE), ToolParam("args", "str", FALSE)>>,
         {"command", "args"}, {"command"}),
    Tool("list_programs", "programs", <<ToolParam("name_filter", "str", FALSE)>>,
         {"name_filter"}, {}),
    Tool("system_snapshot", "system", <<>>, {}, {}),
    Tool("gpu_stats", "system", <<>>, {}, {}),
    Tool("list_ai_apps", "ai", <<>>, {}, {}),
    Tool("ask_ollama", "ai",
         <<ToolParam("prompt", "str", TRUE), ToolParam("model", "str", FALSE),
           ToolParam("url", "str", FALSE)>>,
         {"prompt", "model", "url"}, {"prompt"}),
    Tool("list_ollama_models", "ai", <<ToolParam("url", "str", FALSE)>>, {"url"}, {})
}

RegistryOf(S) == [n \in {t.name : t \in S} |-> CHOOSE t \in S : t.name = n]

\* ToolRegistry(register_defaults=False) and ToolRegistry()
EmptyRegistry == RegistryOf({})
DefaultRegistry == RegistryOf(BuiltinTools)

\* Tools that callers register themselves (the ones of the test suites)
EchoTool == Tool("echo", "test", <<ToolParam("text", "str", TRUE)>>, {"text"}, {})
EchoAnyTool == Tool("echo", "general", <<ToolParam("text", "str", FALSE)>>, AllKeys, {})
\* a tool registered under a name of its own around the handler of read_file
AliasTool ==
    [Tool("alias", "general", <<ToolParam("path", "str", TRUE)>>, {"path"}, {"path"})
        EXCEPT !.handler = Handler("read_file", {"path"}, {"path"})]
CustomTools == {EchoTool, EchoAnyTool, AliasTool}

(***************************************************************************)
(* agent.py: replies of the model and Agent._parse_action                  *)
(*                                                                         *)
(* A reply is a str whose chunks are prose, white space, code-fence        *)
(* markers, single braces, or the complete text of one JSON object.        *)
(***************************************************************************)
J_read == "{\"thought\": \"t1\", \"tool\": \"read_file\", \"args\": {\"path\": \"/tmp/x\"}}"
J_echo == "{\"tool\": \"echo\", \"args\": {}}"
J_extra == "{\"thought\": \"t1\", \"tool\": \"read_file\", \"args\": {\"path\": \"/tmp/x\", \"zzz\": 5}}"
J_snap == "{\"thought\": \"t2\", \"tool\": \"system_snapshot\"}"
J_num == "{\"tool\": 5, \"args\": {}}"
J_fin42 == "{\"thought\": \"t3\", \"tool\": \"finish\", \"args\": {\"answer\": \"42\"}}"
J_finEmpty == "{\"tool\": \"finish\", \"args\": {\"answer\": \"\"}}"
J_finNone == "{\"tool\": \"finish\", \"args\": {}}"
J_finNum == "{\"tool\": \"finish\", \"args\": {\"answer\": 5}}"
J_finNull == "{\"tool\": \"finish\", \"args\": null}"
J_argsStr == "{\"tool\": \"read_file\", \"args\": \"abc\"}"
J_nameKey == "{\"tool\": \"echo\", \"args\": {\"name\": \"x\", \"text\": \"hi\"}}"
J_toolList == "{\"tool\": [\"a\"], \"args\": {}}"

\* json.loads of each object text
JsonObjects ==
    (J_read :> [thought |-> PyStr(<<"t1">>), tool |-> PyStr(<<"read_file">>),
                args |-> PyDict([path |-> PyStr(<<"/tmp/x">>)])])
 @@ (J_echo :> [tool |-> PyStr(<<"echo">>), args |-> PyDict(EmptyDict)])
 @@ (J_extra :> [thought |-> PyStr(<<"t1">>), tool |-> PyStr(<<"read_file">>),
                 args |-> PyDict([path |-> PyStr(<<"/tmp/x">>), zzz |-> PyNum(5)])])
 @@ (J_snap :> [thought |-> PyStr(<<"t2">>), tool |-> PyStr(<<"system_snapshot">>)])
 @@ (J_num :> [tool |-> PyNum(5), args |-> PyDict(EmptyDict)])
 @@ (J_fin42 :> [thought |-> PyStr(<<"t3">>), tool |-> PyStr(<<"finish">>),
                 args |-> PyDict([answer |-> PyStr(<<"42">>)])])
 @@ (J_finEmpty :> [tool |-> PyStr(<<"finish">>), args |-> PyDict([answer |-> PyStr(<<>>)])])
 @@ (J_finNone :> [tool |-> PyStr(<<"finish">>), args |-> PyDict(EmptyDict)])
 @@ (J_finNum :> [tool |-> PyStr(<<"finish">>), args |-> PyDict([answer |-> PyNum(5)])])
 @@ (J_finNull :> [tool |-> PyStr(<<"finish">>), args |-> PyNone])
 @@ (J_argsStr :> [tool |-> PyStr(<<"read_file">>), args |-> PyStr(<<"abc">>)])
 @@ (J_nameKey :> [tool |-> PyStr(<<"echo">>),
                   args |-> PyDict([name |-> PyStr(<<"x">>), text |-> PyStr(<<"hi">>)])])
 @@ (J_toolList :> [tool |-> PyList(<<"a">>), args |-> PyDict(EmptyDict)])

WhiteSpace == {" ", "\n"}
\* the code-fence markers: three backquotes, with or without "json"
FenceMark == "<fence>"
FenceJson == "<fence>json"
Fences == {FenceMark, FenceJson}

\* a chunk that opens a member and nests brackets deeper than the recursion
\* limit of the interpreter:  "a": [[[[ ...
DeepNest == "<deep>"

IsOpen(c) == c = "{" \/ c \in DOMAIN JsonObjects     \* the chunk holds a '{'
IsClose(c) == c = "}" \/ c \in DOMAIN JsonObjects    \* the chunk holds a '}'

RECURSIVE LStrip(_)
LStrip(t) == IF t # <<>> /\ Head(t) \in WhiteSpace THEN LStrip(Tail(t)) ELSE t

RECURSIVE RStrip(_)
RStrip(t) ==
    IF t # <<>> /\ t[Len(t)] \in WhiteSpace THEN RStrip(SubSeq(t, 1, Len(t) - 1)) ELSE t

\* str.strip()
Strip(t) == RStrip(LStrip(t))

RECURSIVE RemoveFences(_)
\* re.sub of a fence marker and the white space after it by ""
RemoveFences(t) ==
    IF t = <<>> THEN <<>>
    ELSE IF Head(t) \in Fences THEN RemoveFences(LStrip(Tail(t)))
    ELSE <<Head(t)>> \o RemoveFences(Tail(t))

\* json.loads(span); PyNone stands for JSONDecodeError, caught by the caller,
\* and <<"raise", e>> for an exception that is not caught
JsonLoads(span) ==
    IF Len(span) = 1 /\ span[1] \in DOMAIN JsonObjects THEN PyDict(JsonObjects[span[1]])
    ELSE IF /\ span[1] = "{"
            /\ \E i \in 2..Len(span) :
                  /\ span[i] = DeepNest
                  /\ \A j \in 2..(i - 1) : span[j] \in WhiteSpace
    THEN <<"raise", "RecursionError">>
    ELSE IF /\ Len(span) >= 2 /\ span[1] = "{" /\ span[Len(span)] = "}"
            /\ \A i \in 2..(Len(span) - 1) : span[i] \in WhiteSpace
    THEN PyDict(EmptyDict)
    ELSE PyNone

\* Agent._parse_action: the decoded dict, PyNone, or <<"raise", e>>
ParseAction(text) ==
    LET t == Strip(RemoveFences(text))
        opens == {i \in 1..Len(t) : IsOpen(t[i])}
        first == CHOOSE i \in opens : \A j \in opens : i <= j
        closes == {i \in 1..Len(t) : IsClose(t[i]) /\ i >= first}
        last == CHOOSE i \in closes : \A j \in closes : j <= i
    IN IF opens = {} THEN PyNone
       ELSE IF closes = {} THEN PyNone
       ELSE JsonLoads(SubSeq(t, first, last))

\* dict.get(key, default)
DictGet(d, key, default) == IF key \in DOMAIN d THEN d[key] ELSE default

(***************************************************************************)
(* agent.py: data types and the scripted transport                         *)
(***************************************************************************)
AgentStepNumberOne(n, thought, tool_name, tool_args, res) ==
    [step_number |-> 1, thought |-> thought, tool_name |-> tool_name,
     tool_args |-> tool_args, result |-> res]

AgentStep(n, thought, tool_name, tool_args, res) ==
    [step_number |-> n, thought |-> thought, tool_name |-> tool_name,
     tool_args |-> tool_args, result |-> res]

\* the variable result before any call of execute
IdleResult == [goal |-> <<>>, answer |-> PyStr(<<>>), steps |-> <<>>, success |-> TRUE]

AgentResultSharedSteps(g) ==
    [goal |-> g, answer |-> PyStr(<<>>), steps |-> other.result.steps, success |-> TRUE]

\* AgentResult(goal=goal, answer="", steps=[]); success defaults to True
AgentResult(g) == [goal |-> g, answer |-> PyStr(<<>>), steps |-> <<>>, success |-> TRUE]

Message(role, content) == [role |-> role, content |-> content]

\* _SYSTEM_PROMPT_TEMPLATE.format(tool_catalogue=...)
SystemPrompt(catalogue) ==
    <<"You are AI Helper, an intelligent desktop assistant.", "\n", "\n">>
      \o catalogue
      \o <<"\n", "\n", "Your job is to accomplish the user's goal step by step.",
           "\n", "Rules: reply with ONLY a JSON object">>

FINISH == PyStr(<<"finish">>)

StepLimitMessage == <<"I could not complete the goal within the step limit.">>

\* GenerateResult values OllamaClient.chat may return: (response, error)
GenerateResult(response, error) == [response |-> response, error |-> error]

Replies == {
    <<J_read>>, <<J_echo>>, <<J_extra>>, <<J_snap>>, <<J_num>>, <<"{", "}">>,
    <<"Sure: ", FenceJson, "\n", J_fin42, "\n", FenceMark>>,
    <<J_fin42>>, <<J_finEmpty>>, <<J_finNone>>, <<J_finNum>>, <<J_finNull>>,
    <<J_argsStr>>, <<J_nameKey>>, <<J_toolList>>,
    <<" ", "Here is my answer in plain text.", "\n">>, <<>>, <<"\n">>,
    <<J_read, " ", J_fin42>>, <<"{", DeepNest, "}">>
}

ChatResults ==
    {GenerateResult(r, <<>>) : r \in Replies}
      \cup {GenerateResult(<<>>, <<"No response from Ollama">>),
            GenerateResult(<<J_fin42>>, <<"connection refused">>)}

NoPending == [raw |-> <<>>, thought |-> PyNone, tool_name |-> PyNone, tool_args |-> PyNone]

NoOp == [op |-> "none"]

(***************************************************************************)
(* agent.py: Agent.execute and Agent._run_ollama_loop                      *)
(***************************************************************************)
OllamaAvailableUnlessDown(probe) == probe # "down"

\* Agent._ollama_available: is_running() of the client, False when the probe
\* raises
OllamaAvailable(probe) == probe = "up"

\* the locals and the history of the current call
Frame ==
    [pc |-> pc, goal |-> goal, use_ollama |-> use_ollama, result |-> result,
     messages |-> messages, step_num |-> step_num, pending |-> pending,
     ended |-> ended, exc |-> exc, chatLog |-> chatLog, invokeLog |-> invokeLog,
     handlerCalls |-> handlerCalls, callLog |-> callLog]

\* the frame of a call that has not started
IdleFrame ==
    [pc |-> "idle", goal |-> <<>>, use_ollama |-> FALSE, result |-> IdleResult,
     messages |-> <<>>, step_num |-> 0, pending |-> NoPending,
     ended |-> "none", exc |-> "none", chatLog |-> <<>>, invokeLog |-> <<>>,
     handlerCalls |-> 0, callLog |-> <<>>]

ConversationKept(tls, g) ==
    other.messages \o <<Message("system", SystemPrompt(DescribeAll(tls))),
                        Message("user", g)>>

\* messages of _run_ollama_loop before the loop: a new list of the call
Conversation(tls, g) ==
    <<Message("system", SystemPrompt(DescribeAll(tls))), Message("user", g)>>

\* execute up to the call of the planner: the probe, the fresh AgentResult,
\* and for the Ollama loop the set-up of the conversation
Execute(g, probe) ==
    /\ pc = "idle"
    /\ goal' = g
    /\ use_ollama' = OllamaAvailable(probe)
    /\ result' = AgentResult(g)
    /\ messages' = IF OllamaAvailable(probe)
                   THEN Conversation(tools, g)
                   ELSE messages
    /\ step_num' = IF OllamaAvailable(probe) THEN 1 ELSE 0
    /\ pc' = IF OllamaAvailable(probe) THEN "chat" ELSE "rules"
    /\ pending' = NoPending
    /\ ended' = "none"
    /\ exc' = "none"
    /\ chatLog' = <<>>
    /\ invokeLog' = <<>>
    /\ handlerCalls' = 0
    /\ callLog' = <<<<"probe", probe>>>>
                     \o (IF OllamaAvailable(probe)
                         THEN <<<<"planner", "ollama_loop">>>> ELSE <<>>)
    /\ UNCHANGED <<tools, max_steps, other, lastOp>>

LoopContinuesOneMore(n, limit) == n <= limit + 1

\* for step_num in range(1, self.max_steps + 1): n is still in the range
LoopContinues(n, limit) == n <= limit

TransportErrorAnswerBare(error) == PyStr(<<"Ollama error">>)

\* f"Ollama error: {llm_result.error}"
TransportErrorAnswer(error) == PyStr(<<"Ollama error: ">> \o error)

ParseFallbackToRules(raw) == [answer |-> PyStr(<<>>), next |-> "rules"]

ParseFallbackRetry(raw) == [answer |-> PyStr(raw), next |-> "chat"]

\* action is None: the whole reply is the answer and the loop is left
ParseFallback(raw) == [answer |-> PyStr(raw), next |-> "after_loop"]

\* one iteration of the loop up to the tool invocation: client.chat, the
\* error test, _parse_action and the finish test
Chat(llm) ==
    /\ pc = "chat"
    /\ LoopContinues(step_num, max_steps)
    /\ chatLog' = Append(chatLog, [messages |-> messages, response |-> llm.response,
                                   error |-> llm.error])
    /\ \E raw \in {Strip(llm.response)} :
       \E action \in {IF llm.error # <<>> THEN PyNone ELSE ParseAction(raw)} :
          IF llm.error # <<>>
          THEN /\ result' = [result EXCEPT !.answer = TransportErrorAnswer(llm.error)]
               /\ ended' = "transport_error"
               /\ pc' = "after_loop"
               /\ UNCHANGED <<pending, exc>>
          ELSE IF action[1] = "raise"
          THEN /\ exc' = action[2]
               /\ pc' = "raised"
               /\ UNCHANGED <<result, ended, pending>>
          ELSE IF action = PyNone
          THEN /\ result' = [result EXCEPT !.answer = ParseFallback(raw).answer]
               /\ ended' = "parse_fallback"
               /\ pc' = ParseFallback(raw).next
               /\ UNCHANGED <<pending, exc>>
          ELSE LET thought == DictGet(action[2], "thought", PyStr(<<>>))
                   tool_name == DictGet(action[2], "tool", PyStr(<<>>))
                   tool_args == DictGet(action[2], "args", PyDict(EmptyDict))
               IN IF tool_name = FINISH
                  THEN IF tool_args[1] # "dict"
                       THEN /\ exc' = "AttributeError"     \* tool_args.get
                            /\ pc' = "raised"
                            /\ UNCHANGED <<result, ended, pending>>
                       ELSE /\ result' = [result EXCEPT !.answer =
                                            DictGet(tool_args[2], "answer", PyStr(raw))]
                            /\ ended' = "finish"
                            /\ pc' = "after_loop"
                            /\ UNCHANGED <<pending, exc>>
                  ELSE /\ pending' = [raw |-> raw, thought |-> thought,
                                      tool_name |-> tool_name, tool_args |-> tool_args]
                       /\ pc' = "invoke"
                       /\ UNCHANGED <<result, ended, exc>>
    /\ UNCHANGED <<tools, max_steps, other, goal, use_ollama, messages, step_num,
                   invokeLog, handlerCalls, lastOp, callLog>>

RecordStepLatestOnly(steps, step) == <<step>>

\* result.steps.append(step)
RecordStep(steps, step) == Append(steps, step)

ObservationOutputOnly(ret) == ret.output

\* observation = tool_result.output if tool_result.success else
\* f"Error: {tool_result.error}"
Observation(ret) ==
    IF ret.success THEN ret.output ELSE <<"Error: ">> \o ret.error

\* the rest of the iteration: registry.invoke, the new AgentStep and the two
\* messages appended to the conversation
Invoke(beh) ==
    /\ pc = "invoke"
    /\ IF pending.tool_args[1] # "dict"
       THEN /\ exc' = "TypeError"       \* argument after ** must be a mapping
            /\ pc' = "raised"
            /\ UNCHANGED <<result, messages, step_num, invokeLog, handlerCalls>>
       ELSE \E o \in {RegistryInvoke(tools, pending.tool_name, pending.tool_args[2], beh)} :
            LET observation == Observation(o.ret)
            IN /\ invokeLog' = Append(invokeLog,
                                      [name |-> pending.tool_name,
                                       kwargs |-> pending.tool_args[2],
                                       registered |-> DOMAIN tools,
                                       outcome |-> o])
               /\ handlerCalls' = handlerCalls + (IF o.called THEN 1 ELSE 0)
               /\ IF o.exc # "none"
                  THEN /\ exc' = o.exc
                       /\ pc' = "raised"
                       /\ UNCHANGED <<result, messages, step_num>>
                  ELSE /\ result' = [result EXCEPT !.steps =
                                       RecordStep(@, AgentStep(step_num, pending.thought,
                                                               pending.tool_name,
                                                               pending.tool_args[2],
                                                               o.ret))]
                       /\ messages' = messages
                                        \o <<Message("assistant", pending.raw),
                                             Message("user", <<"Tool result:", "\n">>
                                                               \o observation)>>
                       /\ step_num' = step_num + 1
                       /\ pc' = "chat"
                       /\ exc' = "none"
    /\ pending' = NoPending
    /\ UNCHANGED <<tools, max_steps, other, goal, use_ollama, ended, chatLog, lastOp, callLog>>

\* the for loop runs out of step numbers
Exhaust ==
    /\ pc = "chat"
    /\ ~LoopContinues(step_num, max_steps)
    /\ ended' = "exhausted"
    /\ pc' = "after_loop"
    /\ UNCHANGED <<tools, max_steps, other, goal, use_ollama, result, messages, step_num,
                   pending, exc, chatLog, invokeLog, handlerCalls, lastOp, callLog>>

DefaultAnswerMessageOnly(steps) == PyStr(StepLimitMessage)

\* result.steps[-1].result.output if result.steps else the step-limit message
DefaultAnswer(steps) ==
    IF steps # <<>> THEN PyStr(steps[Len(steps)].result.output)
    ELSE PyStr(StepLimitMessage)

\* after the loop: the default answer when result.answer is falsy
LoopReturn ==
    /\ pc = "after_loop"
    /\ result' = IF Truthy(result.answer) THEN result
                 ELSE [result EXCEPT !.answer = DefaultAnswer(result.steps)]
    /\ pc' = "returning"
    /\ UNCHANGED <<tools, max_steps, other, goal, use_ollama, messages, step_num,
                   pending, ended, exc, chatLog, invokeLog, handlerCalls, lastOp, callLog>>

ExecuteReturnDefaultFlag ==
    /\ pc = "returning"
    /\ pc' = "done"
    /\ UNCHANGED <<tools, max_steps, other, goal, use_ollama, result, messages, step_num,
                   pending, ended, exc, chatLog, invokeLog, handlerCalls, lastOp, callLog>>

\* the tail of execute: result.success = bool(result.answer); return result
ExecuteReturn ==
    /\ pc = "returning"
    /\ result' = [result EXCEPT !.success = Truthy(result.answer)]
    /\ pc' = "done"
    /\ UNCHANGED <<tools, max_steps, other, goal, use_ollama, messages, step_num,
                   pending, ended, exc, chatLog, invokeLog, handlerCalls, lastOp, callLog>>

(***************************************************************************)
(* agent.py: the rule-based planner.  A goal is a str of one-character     *)
(* chunks, so that the regular expressions of _RULES and _extract_args are *)
(* matched character by character.                                         *)
(***************************************************************************)
LowerLetters == {"a", "b", "c", "d", "e", "f", "g", "h", "i", "j", "k", "l", "m",
                 "n", "o", "p", "q", "r", "s", "t", "u", "v", "w", "x", "y", "z"}
UpperToLower ==
    [A |-> "a", B |-> "b", C |-> "c", D |-> "d", E |-> "e", F |-> "f", G |-> "g",
     H |-> "h", I |-> "i", J |-> "j", K |-> "k", L |-> "l", M |-> "m", N |-> "n",
     O |-> "o", P |-> "p", Q |-> "q", R |-> "r", S |-> "s", T |-> "t", U |-> "u",
     V |-> "v", W |-> "w", X |-> "x", Y |-> "y", Z |-> "z"]
Digits == {"0", "1", "2", "3", "4", "5", "6", "7", "8", "9"}

IsLetter(c) == c \in LowerLetters \/ c \in DOMAIN UpperToLower
IsWord(c) == IsLetter(c) \/ c \in Digits \/ c = "_"      \* \w
IsSpace(c) == c \in {" ", "\n", "\t"}                    \* \s

\* str.lower()
Lower(t) == [i \in 1..Len(t) |->
                IF t[i] \in DOMAIN UpperToLower THEN UpperToLower[t[i]] ELSE t[i]]

\* \b between t[p] and t[p+1]
Boundary(t, p) ==
    (p >= 1 /\ IsWord(t[p])) # (p < Len(t) /\ IsWord(t[p + 1]))

\* the positions a pattern element can end at, from the positions in P
StepElem(e, t, P) ==
    CASE e[1] = "lit" ->
           {p + Len(e[2]) : p \in {q \in P : /\ q + Len(e[2]) <= Len(t)
                                             /\ SubSeq(t, q + 1, q + Len(e[2])) = e[2]}}
      [] e[1] = "wb" -> {p \in P : Boundary(t, p)}
      [] e[1] = "any+" ->
           {q \in 0..Len(t) : \E p \in P : p < q /\ \A k \in (p + 1)..q : t[k] # "\n"}
      [] e[1] = "any*" ->
           {q \in 0..Len(t) : \E p \in P : p <= q /\ \A k \in (p + 1)..q : t[k] # "\n"}
      [] e[1] = "ws+" ->
           {q \in 0..Len(t) : \E p \in P : p < q /\ \A k \in (p + 1)..q : IsSpace(t[k])}
      [] e[1] = "w" -> {p + 1 : p \in {q \in P : q < Len(t) /\ IsWord(t[q + 1])}}
      [] e[1] = "opt" -> P \cup {p + 1 : p \in {q \in P : q < Len(t) /\ t[q + 1] = e[2]}}

RECURSIVE RunPattern(_, _, _)
RunPattern(pat, t, P) ==
    IF pat = <<>> THEN P ELSE RunPattern(Tail(pat), t, StepElem(Head(pat), t, P))

\* re.search(pattern, t) is not None; a pattern is the sequence of its
\* alternatives, a group of alternatives being spelt out
Search(alts, t) == \E a \in 1..Len(alts) : RunPattern(alts[a], t, 0..Len(t)) # {}

\* Agent._RULES
RULES == <<
    \* \bread\b.+file|open.+file|contents?\s+of
    [tool |-> "read_file", pattern |-> <<
        <<<<"wb">>, <<"lit", <<"r", "e", "a", "d">>>>, <<"wb">>, <<"any+">>, <<"lit", <<"f", "i", "l", "e">>>>>>,
        <<<<"lit", <<"o", "p", "e", "n">>>>, <<"any+">>, <<"lit", <<"f", "i", "l", "e">>>>>>,
        <<<<"lit", <<"c", "o", "n", "t", "e", "n", "t">>>>, <<"opt", "s">>, <<"ws+">>, <<"lit", <<"o", "f">>>>>>>>],
    \* \bwrite\b.+to\b|save.+file|create.+file
    [tool |-> "write_file", pattern |-> <<
        <<<<"wb">>, <<"lit", <<"w", "r", "i", "t", "e">>>>, <<"wb">>, <<"any+">>, <<"lit", <<"t", "o">>>>, <<"wb">>>>,
        <<<<"lit", <<"s", "a", "v", "e">>>>, <<"any+">>, <<"lit", <<"f", "i", "l", "e">>>>>>,
        <<<<"lit", <<"c", "r", "e", "a", "t", "e">>>>, <<"any+">>, <<"lit", <<"f", "i", "l", "e">>>>>>>>],
    \* \bsearch\b.+files?|find.+files?|look for.+files?
    [tool |-> "search_files", pattern |-> <<
        <<<<"wb">>, <<"lit", <<"s", "e", "a", "r", "c", "h">>>>, <<"wb">>, <<"any+">>, <<"lit", <<"f", "i", "l", "e">>>>, <<"opt", "s">>>>,
        <<<<"lit", <<"f", "i", "n", "d">>>>, <<"any+">>, <<"lit", <<"f", "i", "l", "e">>>>, <<"opt", "s">>>>,
        <<<<"lit", <<"l", "o", "o", "k", " ", "f", "o", "r">>>>, <<"any+">>, <<"lit", <<"f", "i", "l", "e">>>>, <<"opt", "s">>>>>>],
    \* \blist\b.+(files?|folder|dir)|what.+in.+dir|ls\b
    [tool |-> "list_directory", pattern |-> <<
        <<<<"wb">>, <<"lit", <<"l", "i", "s", "t">>>>, <<"wb">>, <<"any+">>, <<"lit", <<"f", "i", "l", "e">>>>, <<"opt", "s">>>>,
        <<<<"wb">>, <<"lit", <<"l", "i", "s", "t">>>>, <<"wb">>, <<"any+">>, <<"lit", <<"f", "o", "l", "d", "e", "r">>>>>>,
        <<<<"wb">>, <<"lit", <<"l", "i", "s", "t">>>>, <<"wb">>, <<"any+">>, <<"lit", <<"d", "i", "r">>>>>>,
        <<<<"lit", <<"w", "h", "a", "t">>>>, <<"any+">>, <<"lit", <<"i", "n">>>>, <<"any+">>, <<"lit", <<"d", "i", "r">>>>>>,
        <<<<"lit", <<"l", "s">>>>, <<"wb">>>>>>],
    \* \brun\b.+program|execute|launch|start\s+\w
    [tool |-> "run_program", pattern |-> <<
        <<<<"wb">>, <<"lit", <<"r", "u", "n">>>>, <<"wb">>, <<"any+">>, <<"lit", <<"p", "r", "o", "g", "r", "a", "m">>>>>>,
        <<<<"lit", <<"e", "x", "e", "c", "u", "t", "e">>>>>>,
        <<<<"lit", <<"l", "a", "u", "n", "c", "h">>>>>>,
        <<<<"lit", <<"s", "t", "a", "r", "t">>>>, <<"ws+">>, <<"w">>>>>>],
    \* \bgpu\b|vram|nvidia|graphics\s+card
    [tool |-> "gpu_stats", pattern |-> <<
        <<<<"wb">>, <<"lit", <<"g", "p", "u">>>>, <<"wb">>>>,
        <<<<"lit", <<"v", "r", "a", "m">>>>>>,
        <<<<"lit", <<"n", "v", "i", "d", "i", "a">>>>>>,
        <<<<"lit", <<"g", "r", "a", "p", "h", "i", "c", "s">>>>, <<"ws+">>, <<"lit", <<"c", "a", "r", "d">>>>>>>>],
    \* \bai\s+apps?\b|comfyui|lm\s+studio|stable\s+diff
    [tool |-> "list_ai_apps", pattern |-> <<
        <<<<"wb">>, <<"lit", <<"a", "i">>>>, <<"ws+">>, <<"lit", <<"a", "p", "p">>>>, <<"opt", "s">>, <<"wb">>>>,
        <<<<"lit", <<"c", "o", "m", "f", "y", "u", "i">>>>>>,
        <<<<"lit", <<"l", "m">>>>, <<"ws+">>, <<"lit", <<"s", "t", "u", "d", "i", "o">>>>>>,
        <<<<"lit", <<"s", "t", "a", "b", "l", "e">>>>, <<"ws+">>, <<"lit", <<"d", "i", "f", "f">>>>>>>>],
    \* \bollama.*model|model.*ollama|list.*model
    [tool |-> "list_ollama_models", pattern |-> <<
        <<<<"wb">>, <<"lit", <<"o", "l", "l", "a", "m", "a">>>>, <<"any*">>, <<"lit", <<"m", "o", "d", "e", "l">>>>>>,
        <<<<"lit", <<"m", "o", "d", "e", "l">>>>, <<"any*">>, <<"lit", <<"o", "l", "l", "a", "m", "a">>>>>>,
        <<<<"lit", <<"l", "i", "s", "t">>>>, <<"any*">>, <<"lit", <<"m", "o", "d", "e", "l">>>>>>>>],
    \* \bollama\b|local\s+llm|local\s+model|ask.*model
    [tool |-> "ask_ollama", pattern |-> <<
        <<<<"wb">>, <<"lit", <<"o", "l", "l", "a", "m", "a">>>>, <<"wb">>>>,
        <<<<"lit", <<"l", "o", "c", "a", "l">>>>, <<"ws+">>, <<"lit", <<"l", "l", "m">>>>>>,
        <<<<"lit", <<"l", "o", "c", "a", "l">>>>, <<"ws+">>, <<"lit", <<"m", "o", "d", "e", "l">>>>>>,
        <<<<"lit", <<"a", "s", "k">>>>, <<"any*">>, <<"lit", <<"m", "o", "d", "e", "l">>>>>>>>],
    \* \bcpu\b|\bmemory\b|\bdisk\b|system\s+stat|resource
    [tool |-> "system_snapshot", pattern |-> <<
        <<<<"wb">>, <<"lit", <<"c", "p", "u">>>>, <<"wb">>>>,
        <<<<"wb">>, <<"lit", <<"m", "e", "m", "o", "r", "y">>>>, <<"wb">>>>,
        <<<<"wb">>, <<"lit", <<"d", "i", "s", "k">>>>, <<"wb">>>>,
        <<<<"lit", <<"s", "y", "s", "t", "e", "m">>>>, <<"ws+">>, <<"lit", <<"s", "t", "a", "t">>>>>>,
        <<<<"lit", <<"r", "e", "s", "o", "u", "r", "c", "e">>>>>>>>],
    \* \bprocesses?\b|running programs?|what.+running
    [tool |-> "list_programs", pattern |-> <<
        <<<<"wb">>, <<"lit", <<"p", "r", "o", "c", "e", "s", "s", "e">>>>, <<"opt", "s">>, <<"wb">>>>,
        <<<<"lit", <<"r", "u", "n", "n", "i", "n", "g", " ", "p", "r", "o", "g", "r", "a", "m">>>>, <<"opt", "s">>>>,
        <<<<"lit", <<"w", "h", "a", "t">>>>, <<"any+">>, <<"lit", <<"r", "u", "n", "n", "i", "n", "g">>>>>>>>]
>>

\* the goals of the model
G_cpu == <<"W", "h", "a", "t", " ", "i", "s", " ", "m", "y", " ", "C", "P", "U", " ", "u", "s", "a", "g", "e", " ", "r", "i", "g", "h", "t", " ", "n", "o", "w", "?">>
G_search == <<"S", "e", "a", "r", "c", "h", " ", "f", "o", "r", " ", "*", ".", "p", "y", " ", "f", "i", "l", "e", "s", " ", "i", "n", " ", "m", "y", " ", "h", "o", "m", "e", " ", "d", "i", "r", "e", "c", "t", "o", "r", "y">>
G_xyzzy == <<"x", "y", "z", "z", "y", "_", "u", "n", "k", "n", "o", "w", "n", "_", "r", "e", "q", "u", "e", "s", "t", "_", "1", "2", "3">>
G_read == <<"R", "e", "a", "d", " ", "t", "h", "e", " ", "f", "i", "l", "e", " ", "/", "t", "m", "p", "/", "x">>
G_run == <<"R", "u", "n", " ", "N", "o", "t", "e", "p", "a", "d", " ", "p", "r", "o", "g", "r", "a", "m">>
G_apps == <<"W", "h", "a", "t", " ", "A", "I", " ", "a", "p", "p", "s", " ", "a", "r", "e", " ", "r", "u", "n", "n", "i", "n", "g", "?">>
G_write == <<"W", "r", "i", "t", "e", " ", "h", "e", "l", "l", "o", " ", "t", "o", " ", "/", "t", "m", "p", "/", "y">>
G_list == <<"L", "i", "s", "t", " ", "f", "i", "l", "e", "s", " ", "i", "n", " ", "/", "t", "m", "p">>
G_gpu == <<"H", "o", "w", " ", "m", "u", "c", "h", " ", "V", "R", "A", "M", " ", "i", "s", " ", "f", "r", "e", "e", "?">>
G_model == <<"S", "h", "o", "w", " ", "o", "l", "l", "a", "m", "a", " ", "m", "o", "d", "e", "l">>
G_ask == <<"A", "s", "k", " ", "o", "l", "l", "a", "m", "a", " ", "w", "h", "y">>
G_procs == <<"S", "h", "o", "w", " ", "p", "r", "o", "c", "e", "s", "s", "e", "s">>
G_comfy == <<"I", "s", " ", "C", "o", "m", "f", "y", "U", "I", " ", "u", "s", "i", "n", "g", " ", "a", "n", " ", "o", "l", "l", "a", "m", "a", " ", "m", "o", "d", "e", "l", "?">>
G_appmodels == <<"W", "h", "i", "c", "h", " ", "A", "I", " ", "a", "p", "p", "s", " ", "u", "s", "e", " ", "o", "l", "l", "a", "m", "a", " ", "m", "o", "d", "e", "l", "s", "?">>
G_named == <<"S", "h", "o", "w", " ", "p", "r", "o", "c", "e", "s", "s", "e", "s", " ", "n", "a", "m", "e", "d", " ", "C", "h", "r", "o", "m", "e">>
Goals == {G_cpu, G_search, G_xyzzy, G_read, G_run, G_apps,
          G_write, G_list, G_gpu, G_model, G_ask, G_procs, G_comfy, G_appmodels, G_named}

(***************************************************************************)
(* agent.py: Agent._extract_args                                           *)
(***************************************************************************)
\* the end of the longest run of characters satisfying Ok that starts at i
RunEnd(t, i, Ok(_)) ==
    CHOOSE e \in (i - 1)..Len(t) :
        /\ \A k \in i..e : Ok(t[k])
        /\ e = Len(t) \/ ~Ok(t[e + 1])

Least(S) == CHOOSE i \in S : \A j \in S : i <= j

NonSpace(c) == ~IsSpace(c)              \* \S
NotSpaceComma(c) == ~IsSpace(c) /\ c # ","   \* [^\s,]

\* a or b or c on str
Or3(a, b, c) == IF a # <<>> THEN a ELSE IF b # <<>> THEN b ELSE c

\* first group of re.findall(r'"([^"]+)"|\'([^\']+)\'', goal), or ""
FirstQuoted(g) ==
    LET CloseOf(i) == {j \in (i + 2)..Len(g) :
                          g[j] = g[i] /\ \A k \in (i + 1)..(j - 1) : g[k] # g[i]}
        starts == {i \in 1..Len(g) : g[i] \in {"\"", "'"} /\ CloseOf(i) # {}}
    IN IF starts = {} THEN <<>>
       ELSE SubSeq(g, Least(starts) + 1, Least(CloseOf(Least(starts))) - 1)

\* group 1 of re.search(r"([A-Za-z]:[\\\/][^\s,]+|\/[^\s,]+|~\/[^\s,]+)", goal), or ""
PathOf(g) ==
    LET Drive(i) == /\ i + 3 <= Len(g) /\ IsLetter(g[i]) /\ g[i + 1] = ":"
                    /\ g[i + 2] \in {"\\", "/"} /\ NotSpaceComma(g[i + 3])
        Root(i) == i + 1 <= Len(g) /\ g[i] = "/" /\ NotSpaceComma(g[i + 1])
        Home(i) == /\ i + 2 <= Len(g) /\ g[i] = "~" /\ g[i + 1] = "/"
                   /\ NotSpaceComma(g[i + 2])
        starts == {i \in 1..Len(g) : Drive(i) \/ Root(i) \/ Home(i)}
        i0 == Least(starts)
        body == IF Drive(i0) THEN i0 + 3 ELSE IF Root(i0) THEN i0 + 1 ELSE i0 + 2
    IN IF starts = {} THEN <<>>
       ELSE SubSeq(g, i0, RunEnd(g, body, NotSpaceComma))

\* group 0 of re.search(r"\*\.\w+|\w+\.\w+", goal), or "" when there is no match
GlobOfNone(g) == <<>>

GlobOf(g) ==
    LET Star(i) == /\ i + 2 <= Len(g) /\ g[i] = "*" /\ g[i + 1] = "."
                   /\ IsWord(g[i + 2])
        Dotted(i) == /\ IsWord(g[i])
                     /\ LET e == RunEnd(g, i, IsWord)
                        IN e + 2 <= Len(g) /\ g[e + 1] = "." /\ IsWord(g[e + 2])
        starts == {i \in 1..Len(g) : Star(i) \/ Dotted(i)}
        i0 == Least(starts)
        ext == IF Star(i0) THEN i0 + 2 ELSE RunEnd(g, i0, IsWord) + 2
    IN IF starts = {} THEN <<>>
       ELSE SubSeq(g, i0, RunEnd(g, ext, IsWord))

\* the group of the leftmost match of  kw1\s+(\S+)|kw2\s+(\S+)|...  in t, or ""
CaptureAfter(t, kws) ==
    LET At(i, kw) == /\ i + Len(kw) <= Len(t)
                     /\ SubSeq(t, i, i + Len(kw) - 1) = kw
                     /\ IsSpace(t[i + Len(kw)])
                     /\ RunEnd(t, i + Len(kw), IsSpace) < Len(t)
        starts == {i \in 1..Len(t) : \E kw \in kws : At(i, kw)}
        i0 == Least(starts)
        kw0 == CHOOSE kw \in kws : At(i0, kw)
        b == RunEnd(t, i0 + Len(kw0), IsSpace) + 1
    IN IF starts = {} THEN <<>>
       ELSE SubSeq(t, b, RunEnd(t, b, NonSpace))

\* the keywords of the run_program and list_programs extractors
RUN_KW == <<"r", "u", "n">>
EXECUTE_KW == <<"e", "x", "e", "c", "u", "t", "e">>
LAUNCH_KW == <<"l", "a", "u", "n", "c", "h">>
NAME_KW == <<"n", "a", "m", "e">>
NAMED_KW == <<"n", "a", "m", "e", "d">>
CALLED_KW == <<"c", "a", "l", "l", "e", "d">>

\* Agent.ollama_model
OllamaModel == <<"llama3">>

ExtractArgsNone(tool_name, g) == EmptyDict

ExtractArgs(tool_name, g) ==
    LET first_quoted == FirstQuoted(g)
        path == PathOf(g)
        glob == GlobOf(g)
        \* run\s+(\S+)|execute\s+(\S+)|launch\s+(\S+) on goal.lower()
        cmd == CaptureAfter(Lower(g), {RUN_KW, EXECUTE_KW, LAUNCH_KW})
        \* named?\s+(\S+)|called\s+(\S+) on goal.lower()
        nm == CaptureAfter(Lower(g), {NAME_KW, NAMED_KW, CALLED_KW})
    IN CASE tool_name = "read_file" -> [path |-> PyStr(Or3(path, first_quoted, g))]
         [] tool_name = "write_file" ->
              [path |-> PyStr(Or3(path, first_quoted, <<"output.txt">>)),
               content |-> PyStr(<<>>)]
         [] tool_name = "search_files" ->
              [query |-> PyStr(IF glob # <<>> THEN glob
                               ELSE Or3(first_quoted, <<"*">>, <<"*">>)),
               root |-> PyStr(path)]
         [] tool_name = "list_directory" -> [path |-> PyStr(Or3(path, first_quoted, <<>>))]
         [] tool_name = "run_program" ->
              [command |-> PyStr(IF cmd # <<>> THEN cmd ELSE first_quoted)]
         [] tool_name = "list_programs" -> [name_filter |-> PyStr(nm)]
         [] tool_name = "ask_ollama" -> [prompt |-> PyStr(g), model |-> PyStr(OllamaModel)]
         [] OTHER -> EmptyDict

(***************************************************************************)
(* agent.py: Agent._run_rule_based                                         *)
(***************************************************************************)
NotSurePrefix ==
    <<"I'm not sure how to handle that specific request yet, but here is ",
      "the current system status:", "\n", "\n">>

MatchingRules(g) == {i \in 1..Len(RULES) : Search(RULES[i].pattern, Lower(g))}

RulePlanLastMatch(g) ==
    LET m == MatchingRules(g)
        tool_name == RULES[CHOOSE i \in m : \A j \in m : j <= i].tool
    IN IF m # {}
       THEN [matched |-> TRUE, tool_name |-> tool_name,
             args |-> ExtractArgs(tool_name, g),
             thought |-> <<"Goal matches pattern for ">> \o Repr(PyStr(<<tool_name>>))]
       ELSE [matched |-> FALSE, tool_name |-> "system_snapshot", args |-> EmptyDict,
             thought |-> <<"No specific tool matched; showing system status">>]

\* the for loop over _RULES: the first rule whose pattern matches, the
\* arguments extracted for its tool, and the thought of the Step
RulePlan(g) ==
    LET m == MatchingRules(g)
        tool_name == RULES[Least(m)].tool
    IN IF m # {}
       THEN [matched |-> TRUE, tool_name |-> tool_name,
             args |-> ExtractArgs(tool_name, g),
             thought |-> <<"Goal matches pattern for ">> \o Repr(PyStr(<<tool_name>>))]
       ELSE [matched |-> FALSE, tool_name |-> "system_snapshot", args |-> EmptyDict,
             thought |-> <<"No specific tool matched; showing system status">>]

RuleAnswerNoPrefix(plan, ret) ==
    IF ret.success THEN ret.output ELSE ToolResultStr(ret)

RuleAnswerOutputOnly(plan, ret) ==
    IF ~plan.matched THEN ret.output ELSE ret.output

\* result.answer of the rule-based planner
RuleAnswer(plan, ret) ==
    IF ~plan.matched THEN NotSurePrefix \o ret.output
    ELSE IF ret.success THEN ret.output
    ELSE ToolResultStr(ret)

RuleBasedNoInvoke(beh) ==
    /\ pc = "rules"
    /\ result' = [result EXCEPT !.answer = PyStr(NotSurePrefix)]
    /\ pc' = "returning"
    /\ ended' = "rules"
    /\ callLog' = Append(callLog, <<"planner", "rule_based">>)
    /\ UNCHANGED <<tools, max_steps, other, goal, use_ollama, messages, step_num, pending,
                   exc, chatLog, invokeLog, handlerCalls, lastOp>>

\* Agent._run_rule_based: one registry.invoke, one AgentStep, the answer
RuleBased(beh) ==
    /\ pc = "rules"
    /\ \E plan \in {RulePlan(goal)} :
       \E o \in {RegistryInvoke(tools, PyStr(<<plan.tool_name>>), plan.args, beh)} :
          /\ invokeLog' = Append(invokeLog,
                                 [name |-> PyStr(<<plan.tool_name>>), kwargs |-> plan.args,
                                  registered |-> DOMAIN tools, outcome |-> o])
          /\ handlerCalls' = handlerCalls + (IF o.called THEN 1 ELSE 0)
          /\ IF o.exc # "none"
             THEN /\ exc' = o.exc
                  /\ pc' = "raised"
                  /\ UNCHANGED result
             ELSE /\ result' = [result EXCEPT
                                  !.steps = RecordStep(@, AgentStep(1, PyStr(plan.thought),
                                                                    PyStr(<<plan.tool_name>>),
                                                                    plan.args, o.ret)),
                                  !.answer = PyStr(RuleAnswer(plan, o.ret))]
                  /\ pc' = "returning"
                  /\ exc' = "none"
    /\ ended' = "rules"
    /\ callLog' = Append(callLog, <<"planner", "rule_based">>)
    /\ UNCHANGED <<tools, max_steps, other, goal, use_ollama, messages, step_num, pending,
                   chatLog, lastOp>>

(***************************************************************************)
(* The agent: one call of execute on an Agent built over a registry        *)
(***************************************************************************)
InitialRegistries == {DefaultRegistry, EmptyRegistry, RegistryOf({EchoTool})}

\* no call in progress
NoCall ==
    /\ pc = "idle"
    /\ goal = <<>>
    /\ use_ollama = FALSE
    /\ result = IdleResult
    /\ messages = <<>>
    /\ step_num = 0
    /\ pending = NoPending
    /\ ended = "none"
    /\ exc = "none"
    /\ chatLog = <<>>
    /\ invokeLog = <<>>
    /\ handlerCalls = 0
    /\ lastOp = NoOp
    /\ callLog = <<>>
    /\ other = IdleFrame

\* Agent(registry=..., max_steps=...)
Init ==
    /\ tools \in InitialRegistries
    /\ max_steps \in 0..MaxStepLimit
    /\ NoCall

Next ==
    \/ \E g \in Goals, probe \in {"up", "down", "raises"} : Execute(g, probe)
    \/ \E llm \in ChatResults : Chat(llm)
    \/ \E beh \in Behaviours : Invoke(beh)
    \/ Exhaust
    \/ LoopReturn
    \/ \E beh \in Behaviours : RuleBased(beh)
    \/ ExecuteReturn

Spec == Init /\ [][Next]_vars

\* the positions of a call of execute
Positions == {"idle", "chat", "invoke", "after_loop", "returning", "rules", "done", "raised"}

\* a call that is inside execute leaves the position it is at: the chat call
\* or the tool invocation it waits for returns, the plain statements run
Returns ==
    /\ pc \in {"chat", "invoke", "after_loop", "returning", "rules"}
    /\ pc' \in Positions \ {pc}

\* one call of execute in which every chat call and tool invocation returns
LiveSpec == Init /\ [][Next]_vars /\ WF_pc(Returns)

(***************************************************************************)
(* The registry used directly: register, unregister and invoke called by   *)
(* a client with names and keyword arguments of its own                    *)
(***************************************************************************)
RegisterableTools == CustomTools \cup {t \in BuiltinTools : t.name = <<"read_file">>}

ClientNames == {<<"echo">>, <<"read_file">>, <<"write_file">>, <<"system_snapshot">>,
                <<"alias">>, <<"no_such_tool">>}

\* the names a client unregisters
UnregisterNames == {<<"echo">>, <<"read_file">>, <<"alias">>, <<"no_such_tool">>}

ClientCategories == {PyNone, PyStr(<<>>), PyStr(<<"files">>), PyStr(<<"test">>),
                     PyStr(<<"nope">>)}

ClientKwargs == {
    EmptyDict,
    [path |-> PyStr(<<"/tmp/x">>)],
    [text |-> PyStr(<<"hi">>)],
    [path |-> PyStr(<<"/tmp/x">>), content |-> PyStr(<<"c">>)],
    [path |-> PyStr(<<"/tmp/x">>), zzz |-> PyNum(5)],
    [name |-> PyStr(<<"x">>), text |-> PyStr(<<"hi">>)],
    [self |-> PyNone, path |-> PyStr(<<"/tmp/x">>)]
}

RegRegister(tool) ==
    /\ pc = "idle"
    /\ tools' = RegistryRegister(tools, tool)
    /\ lastOp' = [op |-> "register", name |-> tool.name, tool |-> tool, before |-> tools]
    /\ exc' = "none"
    /\ handlerCalls' = 0
    /\ UNCHANGED <<max_steps, other, pc, goal, use_ollama, result, messages, step_num,
                   pending, ended, chatLog, invokeLog, callLog>>

RegUnregister(name) ==
    /\ pc = "idle"
    /\ tools' = IF name \in DOMAIN tools THEN RegistryUnregister(tools, name) ELSE tools
    /\ lastOp' = [op |-> "unregister", name |-> name, before |-> tools,
                  ret |-> (name \in DOMAIN tools)]
    /\ exc' = "none"
    /\ handlerCalls' = 0
    /\ UNCHANGED <<max_steps, other, pc, goal, use_ollama, result, messages, step_num,
                   pending, ended, chatLog, invokeLog, callLog>>

RegInvoke(name, kwargs, beh) ==
    /\ pc = "idle"
    /\ \E o \in {RegistryInvoke(tools, PyStr(name), kwargs, beh)} :
          /\ lastOp' = [op |-> "invoke", name |-> name, kwargs |-> kwargs, ret |-> o.ret]
          /\ exc' = o.exc
          /\ handlerCalls' = IF o.called THEN 1 ELSE 0
    /\ UNCHANGED <<tools, max_steps, other, pc, goal, use_ollama, result, messages, step_num,
                   pending, ended, chatLog, invokeLog, callLog>>

RegGet(name) ==
    /\ pc = "idle"
    /\ lastOp' = [op |-> "get", name |-> name, ret |-> RegistryGet(tools, name)]
    /\ exc' = "none"
    /\ handlerCalls' = 0
    /\ UNCHANGED <<tools, max_steps, other, pc, goal, use_ollama, result, messages, step_num,
                   pending, ended, chatLog, invokeLog, callLog>>

RegListTools(category) ==
    /\ pc = "idle"
    /\ lastOp' = [op |-> "list_tools", category |-> category,
                  ret |-> ListTools(tools, category)]
    /\ exc' = "none"
    /\ handlerCalls' = 0
    /\ UNCHANGED <<tools, max_steps, other, pc, goal, use_ollama, result, messages, step_num,
                   pending, ended, chatLog, invokeLog, callLog>>

RegDescribeAll ==
    /\ pc = "idle"
    /\ lastOp' = [op |-> "describe_all", ret |-> DescribeAll(tools)]
    /\ exc' = "none"
    /\ handlerCalls' = 0
    /\ UNCHANGED <<tools, max_steps, other, pc, goal, use_ollama, result, messages, step_num,
                   pending, ended, chatLog, invokeLog, callLog>>

RegNext ==
    \/ \E t \in RegisterableTools : RegRegister(t)
    \/ \E n \in UnregisterNames : RegUnregister(n)
    \/ \E n \in ClientNames, kw \in ClientKwargs, beh \in Behaviours : RegInvoke(n, kw, beh)
    \/ \E n \in ClientNames : RegGet(n)
    \/ \E c \in ClientCategories : RegListTools(c)
    \/ RegDescribeAll

\* ToolRegistry(register_defaults=...) and no Agent
RegInit ==
    /\ tools \in {DefaultRegistry, EmptyRegistry}
    /\ max_steps = 0
    /\ NoCall

RegSpec == RegInit /\ [][RegNext]_vars

(***************************************************************************)
(* Two calls of execute on one Agent, interleaved: the variables hold the  *)
(* locals of the call that is running and other those of the suspended     *)
(* call; the Agent (registry, max_steps) is shared                         *)
(***************************************************************************)
\* the running call is suspended and the other one resumed
Switch ==
    /\ pc' = other.pc
    /\ goal' = other.goal
    /\ use_ollama' = other.use_ollama
    /\ result' = other.result
    /\ messages' = other.messages
    /\ step_num' = other.step_num
    /\ pending' = other.pending
    /\ ended' = other.ended
    /\ exc' = other.exc
    /\ chatLog' = other.chatLog
    /\ invokeLog' = other.invokeLog
    /\ handlerCalls' = other.handlerCalls
    /\ callLog' = other.callLog
    /\ other' = Frame
    /\ UNCHANGED <<tools, max_steps, lastOp>>

G_ls == <<"l", "s">>
G_hi == <<"h", "i">>
ConcGoals == {G_ls, G_hi}

ConcChatResults == {
    GenerateResult(<<J_read>>, <<>>),
    GenerateResult(<<J_fin42>>, <<>>),
    GenerateResult(<<>>, <<"No response from Ollama">>)
}

ConcBehaviours == {"ok", "fail"}

\* a registry shared by the two calls
ConcRegistry ==
    RegistryOf({t \in BuiltinTools :
                  t.name \in {<<"read_file">>, <<"list_directory">>, <<"system_snapshot">>}})

ConcInit ==
    /\ tools = ConcRegistry
    /\ max_steps = MaxStepLimit
    /\ NoCall

ConcNext ==
    \/ \E g \in ConcGoals, probe \in {"up", "down"} : Execute(g, probe)
    \/ \E llm \in ConcChatResults : Chat(llm)
    \/ \E beh \in ConcBehaviours : Invoke(beh)
    \/ Exhaust
    \/ LoopReturn
    \/ \E beh \in ConcBehaviours : RuleBased(beh)
    \/ ExecuteReturn
    \/ Switch
    \/ RegGet(<<"read_file">>)
    \/ RegListTools(PyStr(<<"files">>))
    \/ RegDescribeAll

ConcSpec == ConcInit /\ [][ConcNext]_vars

(***************************************************************************)
(* Agent._parse_action applied to texts: an object embedded in prose and   *)
(* code fences, and fragments that hold no object                          *)
(***************************************************************************)
ProseBefore == {<<>>, <<"Sure: ">>, <<"Here you go", "\n">>,
                <<"Use ", "{", "braces", "}", ": ">>, <<"x ", "}", " ">>}
FenceOpen == {<<>>, <<FenceJson, "\n">>, <<FenceMark>>}
FenceClose == {<<>>, <<"\n", FenceMark>>}
ProseAfter == {<<>>, <<" Done.">>, <<" ", "{", " y">>, <<" and then ", "{", "done", "}">>,
               <<"\n", J_fin42>>}

Fragments == {<<>>, <<" ", "\n">>, <<"plain text">>, <<"{">>, <<"}">>, <<"}", " ", "{">>,
              <<"{", "not json", "}">>, <<"{", "not json">>, <<FenceJson, "\n", FenceMark>>,
              <<FenceMark, "{", "x", "}", "}">>, <<"{", DeepNest, "}">>,
              <<"{", " ", DeepNest>>, <<"{", "x", DeepNest, "}">>}

ParseText(text, embedded) ==
    /\ pc = "idle"
    /\ \E ret \in {ParseAction(text)} :
          /\ lastOp' = [op |-> "parse_action", text |-> text, embedded |-> embedded,
                        ret |-> ret]
          /\ exc' = IF ret[1] = "raise" THEN ret[2] ELSE "none"
    /\ UNCHANGED <<tools, max_steps, other, pc, goal, use_ollama, result, messages, step_num,
                   pending, ended, chatLog, invokeLog, handlerCalls, callLog>>

\* json.dumps(action) between prose and code fences
ParseEmbedded(pre, open, obj, close, post) ==
    ParseText(pre \o open \o <<obj>> \o close \o post, PyStr(obj))

ParseFragment(text) == ParseText(text, PyNone)

ParseNext ==
    \/ \E pre \in ProseBefore, open \in FenceOpen, obj \in DOMAIN JsonObjects,
          close \in FenceClose, post \in ProseAfter :
          ParseEmbedded(pre, open, obj, close, post)
    \/ \E t \in Fragments : ParseFragment(t)

ParseInit ==
    /\ tools = EmptyRegistry
    /\ max_steps = 0
    /\ NoCall

ParseSpec == ParseInit /\ [][ParseNext]_vars

(***************************************************************************)
(* Properties                                                              *)
(***************************************************************************)

\* C1: Agent.execute never raises: whatever the goal, the registry, the probe
\* outcome and the replies of the transport, no exception propagates to the
\* caller of execute.
C1_ExecuteNeverRaises == pc # "raised"

C3_SuccessIffAnswer ==
    pc = "done" => (result.success <=> result.answer # PyStr(<<>>))

C3_Witness ==
    /\ pc = "done"
    /\ ~result.success
    /\ ended = "exhausted"
    /\ Len(result.steps) = 2

\* C4: ToolRegistry.invoke(name, **kwargs) never raises, for every registered
\* tool, every handler behaviour and every set of keyword arguments.
C4_InvokeNeverRaises ==
    lastOp.op = "invoke" => exc = "none"

\* C5: Tool.invoke never calls the handler with an incomplete argument set:
\* when a required parameter is absent the invocation returns a failed result
\* whose error names a missing required parameter and the handler is not
\* called; the handler is called only when every required parameter is there.
C5_NoHandlerCallWhenIncomplete ==
    (lastOp.op = "invoke" /\ exc = "none" /\ lastOp.name \in DOMAIN tools)
    => LET tool == tools[lastOp.name]
           absent == {i \in 1..Len(tool.params) :
                         /\ tool.params[i].required
                         /\ tool.params[i].name \notin DOMAIN lastOp.kwargs}
       IN /\ absent # {} =>
               /\ handlerCalls = 0
               /\ ~lastOp.ret.success
               /\ Contains(lastOp.ret.error, <<"Missing required parameter: ">>)
               /\ \E i \in absent : Contains(lastOp.ret.error, <<tool.params[i].name>>)
          /\ handlerCalls > 0 => absent = {}

C5_Witness ==
    /\ lastOp.op = "invoke"
    /\ exc = "none"
    /\ lastOp.name = <<"write_file">>
    /\ lastOp.name \in DOMAIN tools
    /\ DOMAIN lastOp.kwargs = {"path"}
    /\ handlerCalls = 0

\* C6: ToolRegistry.invoke with a name that is not registered calls no handler
\* and returns a failed result whose error text contains the attempted name
\* and every name registered at that moment.
C6_UnknownToolListsNames ==
    (lastOp.op = "invoke" /\ exc = "none" /\ lastOp.name \notin DOMAIN tools)
    => /\ handlerCalls = 0
       /\ ~lastOp.ret.success
       /\ Contains(lastOp.ret.error, lastOp.name)
       /\ \A n \in DOMAIN tools : Contains(lastOp.ret.error, n)

C6_Witness ==
    /\ lastOp.op = "invoke"
    /\ exc = "none"
    /\ lastOp.name = <<"no_such_tool">>
    /\ Cardinality(DOMAIN tools) >= 2
    /\ <<"echo">> \in DOMAIN tools

\* C7: in the Ollama loop the number of Steps of the result never exceeds
\* max_steps at any point of the run, and neither does the number of chat
\* calls, however many tool-call replies the transport keeps returning.
C7_StepsBounded ==
    use_ollama => (Len(result.steps) <= max_steps /\ Len(chatLog) <= max_steps)

C7_Witness ==
    /\ pc = "done"
    /\ ended = "exhausted"
    /\ max_steps = 2
    /\ Len(result.steps) = max_steps
    /\ Len(chatLog) = max_steps

\* C8: when a reply parses to an action whose tool is finish, the loop stops
\* at once (no tool invocation for that reply, no further chat call, no Step
\* added) and the answer returned by execute is args.answer, for every value
\* of args.answer, or the raw reply when args has no answer key.
C8_FinishAnswerReturned ==
    (pc = "done" /\ ended = "finish")
    => LET last == chatLog[Len(chatLog)]
           raw == Strip(last.response)
           args == DictGet(ParseAction(raw)[2], "args", PyDict(EmptyDict))
       IN /\ Len(result.steps) = Len(chatLog) - 1
          /\ Len(invokeLog) = Len(chatLog) - 1
          /\ result.answer = DictGet(args[2], "answer", PyStr(raw))

\* C9: if the transport replies with k tool-call actions (0 <= k < max_steps)
\* followed by a finish action, the result has exactly k Steps, Step i carries
\* the thought, tool name and arguments of the i-th reply and the result of
\* invoking that tool, and the final answer is the finish reply's answer.
C9_ToolCallsThenFinish ==
    (pc = "done" /\ ended = "finish")
    => LET k == Len(chatLog) - 1
           Act(i) == ParseAction(Strip(chatLog[i].response))[2]
       IN /\ Len(result.steps) = k
          /\ \A i \in 1..k :
                /\ result.steps[i].thought = DictGet(Act(i), "thought", PyStr(<<>>))
                /\ result.steps[i].tool_name = DictGet(Act(i), "tool", PyStr(<<>>))
                /\ PyDict(result.steps[i].tool_args)
                     = DictGet(Act(i), "args", PyDict(EmptyDict))
                /\ result.steps[i].result = invokeLog[i].outcome.ret
          /\ LET args == DictGet(Act(k + 1), "args", PyDict(EmptyDict))[2]
             IN "answer" \in DOMAIN args => result.answer = args["answer"]

\* C10: if the i-th chat call reports a non-empty error the loop stops at
\* once: the reply is not parsed, no tool is invoked for it and no further
\* chat call is made; the final answer contains the error text and the Steps
\* returned are the i-1 Steps accumulated before.
C10_TransportErrorStops ==
    \A i \in 1..Len(chatLog) :
        chatLog[i].error # <<>> =>
            /\ i = Len(chatLog)
            /\ pc \in {"after_loop", "returning", "done"}
            /\ ended = "transport_error"
            /\ Len(result.steps) = i - 1
            /\ Len(invokeLog) = i - 1
            /\ result.answer[1] = "str"
            /\ Contains(result.answer[2], chatLog[i].error)

C10_Witness ==
    /\ pc = "done"
    /\ ended = "transport_error"
    /\ Len(chatLog) = 2
    /\ Len(result.steps) = 1
    /\ chatLog[2].response # <<>>

\* C11: parse fallback: when no action object can be extracted from a reply,
\* whatever its text, the loop stops without invoking a tool for that reply
\* and without a further chat call, and the answer returned by execute is
\* the entire raw reply.
C11_ParseFallbackAnswer ==
    \A i \in 1..Len(chatLog) :
        (chatLog[i].error = <<>> /\ ParseAction(Strip(chatLog[i].response)) = PyNone)
        => /\ i = Len(chatLog)
           /\ Len(invokeLog) = i - 1
           /\ pc \in {"after_loop", "returning", "done"}
           /\ pc = "done" => result.answer = PyStr(Strip(chatLog[i].response))

C14_ExhaustionAnswer ==
    (pc = "done" /\ ended = "exhausted")
    => /\ Len(chatLog) = max_steps
       /\ Len(result.steps) = max_steps
       /\ result.answer =
            IF result.steps # <<>>
            THEN PyStr(result.steps[Len(result.steps)].result.output)
            ELSE PyStr(<<"I could not complete the goal within the step limit.">>)

C14_Witness ==
    /\ pc = "done"
    /\ ended = "exhausted"
    /\ Len(result.steps) = 2
    /\ result.steps[1].result.output # result.steps[2].result.output
    /\ result.answer = PyStr(<<"out:", "read_file">>)

\* C15: the rule-based planner is single-shot: a call in rule-based mode
\* makes exactly one ToolRegistry.invoke call and records exactly one Step,
\* whether a rule matched or not and whether the invocation succeeded or
\* failed, and it never makes a chat call.
C15_RuleBasedSingleShot ==
    (pc # "idle" /\ ~use_ollama)
    => /\ chatLog = <<>>
       /\ pc # "raised"
       /\ Len(invokeLog) <= 1
       /\ Len(result.steps) = Len(invokeLog)
       /\ pc \in {"returning", "done"} =>
            /\ Len(invokeLog) = 1
            /\ result.steps[1].result = invokeLog[1].outcome.ret
            /\ result.steps[1].tool_name = invokeLog[1].name

C15_Witness ==
    /\ pc = "done"
    /\ ~use_ollama
    /\ goal = G_xyzzy
    /\ Len(invokeLog) = 1
    /\ Len(result.steps) = 1
    /\ ~result.steps[1].result.success

\* C16: first match wins: in rule-based mode the tool invoked is the tool of
\* the lowest-indexed rule of _RULES whose pattern matches the lower-cased
\* goal, however many later rules match; the default tool system_snapshot
\* is invoked if and only if no rule matches.
C16_DefaultToolIffNoMatch ==
    (pc = "done" /\ ~use_ollama)
    => LET m == {i \in 1..Len(RULES) : Search(RULES[i].pattern, Lower(goal))}
           first == CHOOSE i \in m : \A j \in m : i <= j
       IN /\ m # {} => invokeLog[1].name = PyStr(<<RULES[first].tool>>)
          /\ (invokeLog[1].name = PyStr(<<"system_snapshot">>)) <=> (m = {})

\* C16 as amended: the tool invoked is the tool of the lowest-indexed
\* matching rule; the default branch (system_snapshot with no arguments,
\* under the thought "No specific tool matched") is taken if and only if no
\* rule matches, and system_snapshot is also the tool of a rule of its own.
C16_FirstMatchWins ==
    (pc = "done" /\ ~use_ollama)
    => LET m == {i \in 1..Len(RULES) : Search(RULES[i].pattern, Lower(goal))}
           first == CHOOSE i \in m : \A j \in m : i <= j
           default == result.steps[1].thought
                        = PyStr(<<"No specific tool matched; showing system status">>)
       IN /\ m # {} => invokeLog[1].name = PyStr(<<RULES[first].tool>>)
          /\ m = {} => /\ invokeLog[1].name = PyStr(<<"system_snapshot">>)
                       /\ invokeLog[1].kwargs = EmptyDict
          /\ default <=> (m = {})
          /\ \E i \in 1..Len(RULES) : RULES[i].tool = "system_snapshot"

C16_Witness ==
    /\ pc = "done"
    /\ ~use_ollama
    /\ goal = G_apps
    /\ Cardinality({i \in 1..Len(RULES) : Search(RULES[i].pattern, Lower(goal))}) = 2
    /\ invokeLog[1].name = PyStr(<<"list_ai_apps">>)

\* C17: rule-based answer: when a rule matches, the answer is the tool's
\* output when the invocation succeeded and "[ERROR from <tool>] <error>"
\* when it failed; when no rule matches, the answer contains the explanatory
\* prefix and the output of the fallback tool.
C17_RuleBasedAnswer ==
    (pc = "done" /\ ended = "rules")
    => LET st == result.steps[1]
           m == {i \in 1..Len(RULES) : Search(RULES[i].pattern, Lower(goal))}
       IN /\ result.answer[1] = "str"
          /\ (m # {} /\ st.result.success) => result.answer[2] = st.result.output
          /\ (m # {} /\ ~st.result.success) =>
                result.answer[2] = <<"[ERROR from ">> \o st.tool_name[2] \o <<"] ">>
                                     \o st.result.error
          /\ m = {} =>
                /\ Contains(result.answer[2],
                            <<"I'm not sure how to handle that specific request yet, but here is ",
                              "the current system status:">>)
                /\ Contains(result.answer[2], st.result.output)

C17_Witness ==
    /\ pc = "done"
    /\ ended = "rules"
    /\ goal = G_xyzzy
    /\ result.steps[1].result.success
    /\ result.steps[1].result.output # <<>>
    /\ Len(result.answer[2]) > Len(result.steps[1].result.output)

\* C18: every Step recorded by execute, in either planning mode, names a
\* tool that is registered in the registry at the moment the Step is
\* produced.
C18_StepToolRegistered ==
    \A i \in 1..Len(result.steps) :
        /\ result.steps[i].tool_name[1] = "str"
        /\ result.steps[i].tool_name[2] \in invokeLog[i].registered

\* C19: after any sequence of register and unregister operations the
\* registry holds at most one tool per name, and get(n) returns the tool most
\* recently registered under n if n has not been unregistered since, and
\* None otherwise (last registration wins).
C19_LastRegistrationWins ==
    /\ [](\A n \in DOMAIN tools : tools[n].name = n)
    /\ [](Len(ListTools(tools, PyNone)) = Cardinality(DOMAIN tools))
    /\ [][\A n \in DOMAIN tools \cup DOMAIN tools' \cup ClientNames :
            RegistryGet(tools', n) =
                IF lastOp'.op = "register" /\ lastOp'.name = n
                THEN <<"tool", lastOp'.tool>>
                ELSE IF lastOp'.op = "unregister" /\ lastOp'.name = n
                THEN PyNone
                ELSE RegistryGet(tools, n)]_vars

C19_Witness ==
    /\ lastOp.op = "register"
    /\ lastOp.name = <<"echo">>
    /\ <<"echo">> \in DOMAIN lastOp.before
    /\ lastOp.before[<<"echo">>] # lastOp.tool
    /\ RegistryGet(tools, <<"echo">>) = <<"tool", lastOp.tool>>

\* C20: unregister(n) returns true exactly when n was registered right
\* before the call; afterwards get(n) is None and every other registered tool
\* is unchanged; unregistering an absent name returns false and leaves the
\* registry unchanged; register(t) changes only the entry for t.name.
C20_UnregisterFrame ==
    /\ lastOp.op = "unregister" =>
         /\ lastOp.ret = (lastOp.name \in DOMAIN lastOp.before)
         /\ RegistryGet(tools, lastOp.name) = PyNone
         /\ \A n \in (DOMAIN tools \cup DOMAIN lastOp.before) \ {lastOp.name} :
               RegistryGet(tools, n) = RegistryGet(lastOp.before, n)
         /\ ~lastOp.ret => tools = lastOp.before
    /\ lastOp.op = "register" =>
         \A n \in (DOMAIN tools \cup DOMAIN lastOp.before) \ {lastOp.name} :
               RegistryGet(tools, n) = RegistryGet(lastOp.before, n)

C20_Witness ==
    /\ lastOp.op = "unregister"
    /\ lastOp.ret
    /\ lastOp.name = <<"read_file">>
    /\ Cardinality(DOMAIN tools) >= 2
    /\ <<"echo">> \in DOMAIN tools

\* C21: list_tools(c), for every category value c that is passed, returns
\* exactly the registered tools whose category equals c, and list_tools()
\* with no category returns every registered tool; each tool appears once
\* and the result is ordered by (category, name) ascending.
C21_ListToolsByCategory ==
    lastOp.op = "list_tools" =>
        LET ret == lastOp.ret
            c == lastOp.category
            listed == {ret[i] : i \in 1..Len(ret)}
            all == {tools[n] : n \in DOMAIN tools}
        IN /\ c = PyNone => listed = all
           /\ c # PyNone => listed = {t \in all : <<t.category>> = c[2]}
           /\ Len(ret) = Cardinality(listed)
           /\ \A i \in 1..(Len(ret) - 1) :
                 \/ TextLess(<<ret[i].category>>, <<ret[i + 1].category>>)
                 \/ /\ ret[i].category = ret[i + 1].category
                    /\ TextLess(ret[i].name, ret[i + 1].name)

\* C27: every ToolResult returned by ToolRegistry.invoke(name, args) carries
\* tool_name equal to the name that was invoked, on every path: handler
\* success, handler-reported failure, validation failure, handler exception
\* and unknown tool.
C27_ResultCarriesInvokedName ==
    (lastOp.op = "invoke" /\ exc = "none") => lastOp.ret.tool_name = PyStr(lastOp.name)

\* C22: describe_all renders every tool registered at the time of the call
\* exactly once, in list_tools order (category then name), and renders no
\* tool that is not registered; the system instruction of the Ollama loop
\* contains this rendering, taken once at loop setup, and it is the first
\* message of every chat call of that run.
C22_CatalogueInSystemPrompt ==
    /\ []((pc = "chat" /\ chatLog = <<>>) =>
           LET content == messages[1].content
               Line(t) == <<"\n", "  ">> \o t.name \o <<"(">>
               Pos(t) == {k \in 1..(Len(content) - Len(Line(t)) + 1) :
                            SubSeq(content, k, k + Len(Line(t)) - 1) = Line(t)}
               Rendered(t) ==
                   <<"  ">> \o t.name \o <<"(">>
                     \o Join([i \in 1..Len(t.params) |->
                                 <<t.params[i].name, ": ", t.params[i].type>>
                                   \o (IF t.params[i].required THEN <<>> ELSE <<"?">>)],
                             <<", ">>)
                     \o <<") - ">> \o t.description
               Before(a, b) ==
                   \/ TextLess(<<a.category>>, <<b.category>>)
                   \/ a.category = b.category /\ TextLess(a.name, b.name)
           IN /\ messages[1].role = "system"
              /\ Contains(content, <<"Available tools:">>)
              /\ \A n \in DOMAIN tools :
                    /\ Cardinality(Pos(tools[n])) = 1
                    /\ Contains(content, Rendered(tools[n]))
              /\ \A t \in BuiltinTools \cup CustomTools :
                    t.name \notin DOMAIN tools => Pos(t) = {}
              /\ \A n1, n2 \in DOMAIN tools :
                    Before(tools[n1], tools[n2]) =>
                        \A k1 \in Pos(tools[n1]), k2 \in Pos(tools[n2]) : k1 < k2)
    /\ [](\A i \in 1..Len(chatLog) : chatLog[i].messages[1] = messages[1])
    /\ [][(pc # "idle" /\ messages # <<>>) =>
              (messages' # <<>> /\ messages'[1] = messages[1])]_vars

C22_Witness ==
    /\ pc = "done"
    /\ tools = DefaultRegistry
    /\ Len(chatLog) = 2
    /\ Len(chatLog[2].messages) = 4
    /\ chatLog[2].messages[1] = chatLog[1].messages[1]
    /\ Contains(chatLog[2].messages[1].content, <<"  ", "gpu_stats", "(", ") - ">>)

\* C25: structured-action extraction round-trips: for every action, encoding
\* it as a JSON object and embedding it in text with arbitrary surrounding
\* prose and optional code-fence markers, _parse_action returns an object
\* with the same thought, tool and args.
C25_ParseRoundTrip ==
    (lastOp.op = "parse_action" /\ lastOp.embedded # PyNone)
    => /\ exc = "none"
       /\ lastOp.ret = PyDict(JsonObjects[lastOp.embedded[2]])

\* C26: _parse_action returns None, without raising, for every text that
\* contains no structured object at all, including the empty string and text
\* with unbalanced or non-JSON brace fragments.
C26_NoObjectGivesNone ==
    (/\ lastOp.op = "parse_action"
     /\ \A i \in 1..Len(lastOp.text) : lastOp.text[i] \notin DOMAIN JsonObjects
     /\ ~\E i, j \in 1..Len(lastOp.text) :
            /\ i < j /\ lastOp.text[i] = "{" /\ lastOp.text[j] = "}"
            /\ \A k \in (i + 1)..(j - 1) : lastOp.text[k] \in {" ", "\n"})
    => (exc = "none" /\ lastOp.ret = PyNone)

\* C28: with the default registry in rule-based mode, the goal "What is my
\* CPU usage right now?" produces exactly one Step whose tool is
\* system_snapshot, and the goal "Search for *.py files in my home directory"
\* produces exactly one Step whose tool is search_files and whose query
\* argument contains "*.py".
C28_ExampleGoals ==
    (pc = "done" /\ ~use_ollama /\ tools = DefaultRegistry)
    => /\ goal = G_cpu =>
            /\ Len(result.steps) = 1
            /\ result.steps[1].tool_name = PyStr(<<"system_snapshot">>)
       /\ goal = G_search =>
            /\ Len(result.steps) = 1
            /\ result.steps[1].tool_name = PyStr(<<"search_files">>)
            /\ "query" \in DOMAIN result.steps[1].tool_args
            /\ result.steps[1].tool_args.query[1] = "str"
            /\ Contains(result.steps[1].tool_args.query[2], <<"*", ".", "p", "y">>)
            /\ invokeLog[1].kwargs = result.steps[1].tool_args

C28_Witness ==
    /\ pc = "done"
    /\ ~use_ollama
    /\ tools = DefaultRegistry
    /\ goal = G_search
    /\ result.steps[1].tool_args.query = PyStr(<<"*", ".", "p", "y">>)
    /\ result.steps[1].result.success

\* C29: rule precedence: every more specific pattern of _RULES is placed
\* before every more general pattern that would otherwise shadow it; the
\* list_ai_apps rule precedes the rules of list_ollama_models, ask_ollama and
\* list_programs, so a goal matching the AI-application pattern and any of
\* those is routed to list_ai_apps; and each rule is the first match for at
\* least one goal.
C29_AiAppsBeforeGeneralRules ==
    LET Index(t) == CHOOSE i \in 1..Len(RULES) : RULES[i].tool = t
        general == {Index("list_ollama_models"), Index("ask_ollama"), Index("list_programs")}
    IN /\ pc = "idle" =>
            /\ \A i \in general : Index("list_ai_apps") < i
            /\ \A i \in 1..Len(RULES) :
                  \E g \in Goals : MatchingRules(g) # {} /\ Least(MatchingRules(g)) = i
       /\ (pc = "done" /\ ~use_ollama) =>
            \E m \in {MatchingRules(goal)} :
               (Index("list_ai_apps") \in m /\ m \cap general # {})
               => invokeLog[1].name = PyStr(<<"list_ai_apps">>)

\* C24: termination: provided every probe, chat call and tool invocation
\* returns, every execute call terminates; in generative mode the run ends in
\* exactly one of FINISHED, TRANSPORT_ERROR, PARSE_FALLBACK or EXHAUSTED, and
\* once it has ended no further chat call or tool invocation is made.
C24_TerminatesInOneOutcome ==
    /\ (pc # "idle") ~> (pc \in {"done", "raised"})
    /\ []((pc \in {"done", "raised"} /\ use_ollama)
           => ended \in {"finish", "transport_error", "parse_fallback", "exhausted"})
    /\ [][(ended # "none" \/ pc \in {"done", "raised"})
           => (chatLog' = chatLog /\ invokeLog' = invokeLog)]_vars

\* C30: tool-level failures never end the generative loop: after an
\* invocation that returns a failed result at iteration k < max_steps a Step
\* is recorded and the transport is called again; the loop ends before the
\* step limit only on a transport error, a finish action or a parse fallback.
C30_ToolFailuresContinue ==
    /\ \A k \in 1..Len(invokeLog) :
          (/\ use_ollama
           /\ invokeLog[k].outcome.exc = "none"
           /\ ~invokeLog[k].outcome.ret.success
           /\ k < max_steps)
          => /\ Len(result.steps) >= k
             /\ result.steps[k].result = invokeLog[k].outcome.ret
             /\ \/ Len(chatLog) > k
                \/ pc = "chat" /\ LoopContinues(step_num, max_steps)
    /\ (/\ use_ollama
        /\ pc \in {"after_loop", "returning", "done", "raised"}
        /\ Len(result.steps) < max_steps)
       => ended \in {"transport_error", "finish", "parse_fallback"}

\* C23: concurrent runs on a shared registry are safe: execute, invoke, get,
\* list_tools and describe_all never modify the registry's tool map, and for
\* two execute calls interleaved in any order against one Agent and one
\* registry, each call's Steps, conversation history and answer consist only
\* of that call's own transport replies and tool results and equal what the
\* call would produce run alone.
C23_ConcurrentRunsIsolated ==
    /\ [](\A catalogue \in {DescribeAll(tools)}, f \in {Frame, other} :
            LET Raw(i) == Strip(f.chatLog[i].response)
                Returned == {i \in 1..Len(f.invokeLog) : f.invokeLog[i].outcome.exc = "none"}
                Default(a) == IF Truthy(a) THEN a ELSE DefaultAnswer(f.result.steps)
                Gives(a) == f.pc = "done" =>
                                 /\ f.result.answer = Default(a)
                                 /\ f.result.success = Truthy(Default(a))
            IN /\ f.pc # "idle" => f.result.goal = f.goal
               /\ Len(f.result.steps) = Cardinality(Returned)
               /\ (f.pc # "idle" /\ f.use_ollama) =>
                     /\ Len(f.messages) = 2 + 2 * Len(f.result.steps)
                     /\ SubSeq(f.messages, 1, 2) =
                           <<Message("system", SystemPrompt(catalogue)),
                             Message("user", f.goal)>>
                     /\ \A i \in 1..Len(f.chatLog) :
                           f.chatLog[i].messages = SubSeq(f.messages, 1, 2 * i)
                     /\ \A i \in 1..Len(f.result.steps) :
                         \A action \in {ParseAction(Raw(i))[2]},
                            ret \in {f.invokeLog[i].outcome.ret} :
                           /\ f.result.steps[i] =
                                 AgentStep(i, DictGet(action, "thought", PyStr(<<>>)),
                                           DictGet(action, "tool", PyStr(<<>>)),
                                           DictGet(action, "args", PyDict(EmptyDict))[2],
                                           ret)
                           /\ f.messages[2 * i + 1] = Message("assistant", Raw(i))
                           /\ f.messages[2 * i + 2] =
                                 Message("user", <<"Tool result:", "\n">> \o Observation(ret))
                     /\ f.ended # "none" =>
                         \A last \in {f.chatLog[Len(f.chatLog)]} :
                         \A raw \in {Strip(last.response)} :
                           CASE f.ended = "transport_error" ->
                                  Gives(TransportErrorAnswer(last.error))
                             [] f.ended = "parse_fallback" -> Gives(PyStr(raw))
                             [] f.ended = "finish" ->
                                  Gives(DictGet(DictGet(ParseAction(raw)[2], "args",
                                                          PyDict(EmptyDict))[2],
                                                  "answer", PyStr(raw)))
                             [] f.ended = "exhausted" -> Gives(PyStr(<<>>))
               /\ (f.pc # "idle" /\ ~f.use_ollama) =>
                     /\ f.messages = <<>>
                     /\ f.chatLog = <<>>
                     /\ f.invokeLog # <<>> =>
                         \A plan \in {RulePlan(f.goal)}, ret \in {f.invokeLog[1].outcome.ret} :
                           /\ f.result.steps = <<AgentStep(1, PyStr(plan.thought),
                                                           PyStr(<<plan.tool_name>>),
                                                           plan.args, ret)>>
                           /\ Gives(PyStr(RuleAnswer(plan, ret))))
    /\ [][tools' = tools]_vars

C23_Witness ==
    /\ pc = "done"
    /\ other.pc = "invoke"
    /\ use_ollama
    /\ other.use_ollama
    /\ goal # other.goal
    /\ Len(result.steps) = 2
    /\ Len(other.result.steps) = 1
    /\ \E i \in 1..2 : result.steps[i].result # other.result.steps[1].result
    /\ Len(other.messages) = 4
    /\ lastOp.op = "describe_all"

\* C31: conversation history invariant: at the i-th chat call of a run the
\* message list is the system instruction and the user goal followed, for
\* each earlier Step j = 1..i-1 in order, by an assistant message holding raw
\* reply j and a user message holding observation j (the tool's output if it
\* succeeded, otherwise an error string built from its error text); its
\* length is 2 + 2(i-1), and earlier messages are never removed, reordered
\* or rewritten.
C31_ConversationHistory ==
    /\ [](\A i \in 1..Len(chatLog) :
            \A m \in {chatLog[i].messages} :
               /\ Len(m) = 2 + 2 * (i - 1)
               /\ m[1].role = "system"
               /\ m[1] = messages[1]
               /\ m[2] = Message("user", goal)
               /\ \A j \in 1..(i - 1) :
                     \A ret \in {result.steps[j].result} :
                        /\ ret = invokeLog[j].outcome.ret
                        /\ m[2 * j + 1] = Message("assistant", Strip(chatLog[j].response))
                        /\ m[2 * j + 2].role = "user"
                        /\ m[2 * j + 2].content =
                              <<"Tool result:", "\n">>
                                \o (IF ret.success THEN ret.output
                                    ELSE <<"Error: ">> \o ret.error))
    /\ [][pc # "idle" =>
            /\ Len(messages') >= Len(messages)
            /\ SubSeq(messages', 1, Len(messages)) = messages]_vars

C31_Witness ==
    /\ pc = "done"
    /\ max_steps = 2
    /\ Len(chatLog) = 2
    /\ ~result.steps[1].result.success
    /\ result.steps[1].result.error # <<>>
    /\ Len(chatLog[2].messages) = 4
    /\ Contains(chatLog[2].messages[4].content, <<"Error: ">> \o result.steps[1].result.error)

\* C32: within one execute call in generative mode planning and tool
\* invocation never overlap: chat calls and tool invocations strictly
\* alternate starting with a chat call, each tool invocation happens after
\* the chat call whose reply named it has returned and before the next chat
\* call starts, and at most one tool is invoked per reply.
C32_ChatAndInvokeAlternate ==
    /\ []((use_ollama /\ pc # "idle") =>
            /\ Len(invokeLog) <= Len(chatLog)
            /\ Len(chatLog) <= Len(invokeLog) + 1
            /\ pc = "chat" => Len(chatLog) = Len(invokeLog)
            /\ pc = "invoke" =>
                  /\ Len(chatLog) = Len(invokeLog) + 1
                  /\ pending.raw = Strip(chatLog[Len(chatLog)].response)
            /\ \A k \in 1..Len(invokeLog) :
                  invokeLog[k].name =
                     DictGet(ParseAction(Strip(chatLog[k].response))[2], "tool", PyStr(<<>>)))
    /\ [][pc # "idle" =>
            /\ Len(chatLog') + Len(invokeLog') <= Len(chatLog) + Len(invokeLog) + 1
            /\ chatLog' # chatLog =>
                  (Len(chatLog) = Len(invokeLog) /\ chatLog' = Append(chatLog, chatLog'[Len(chatLog')]))
            /\ (invokeLog' # invokeLog /\ use_ollama) =>
                  /\ Len(chatLog) = Len(invokeLog) + 1
                  /\ Len(invokeLog') = Len(invokeLog) + 1]_vars

C32_Witness ==
    /\ pc = "invoke"
    /\ use_ollama
    /\ Len(chatLog) = 2
    /\ Len(invokeLog) = 1
    /\ pending.tool_name = PyStr(<<"read_file">>)
    /\ invokeLog[1].name = PyStr(<<"echo">>)

\* C33: during one execute call the Step list only grows: every change to
\* result.steps appends exactly one Step at the end, so the list at an
\* earlier point of the call is a prefix of the list at any later point, and
\* no Step already recorded is removed or altered.
C33_StepsOnlyGrow ==
    [][pc # "idle" =>
         \/ result'.steps = result.steps
         \/ /\ Len(result'.steps) = Len(result.steps) + 1
            /\ SubSeq(result'.steps, 1, Len(result.steps)) = result.steps]_vars

C33_Witness ==
    /\ pc = "returning"
    /\ use_ollama
    /\ Len(result.steps) = 2
    /\ result.steps[1].tool_name # result.steps[2].tool_name
    /\ result.steps[1].result.success # result.steps[2].result.success

\* C34: self-correction hint: when the planner's action names a tool that is
\* not registered (and is not finish) at iteration k < max_steps, the next
\* chat call receives a history whose last message is an observation
\* containing the attempted name and the names of all registered tools.
C34_SelfCorrectionHint ==
    \A k \in 1..Len(chatLog) :
       (/\ use_ollama
        /\ k < max_steps
        /\ chatLog[k].error = <<>>
        /\ ~(k = Len(chatLog) /\ pc = "invoke"))
       => \A action \in {ParseAction(Strip(chatLog[k].response))} :
          \A tool \in {IF action[1] = "dict"
                       THEN DictGet(action[2], "tool", PyStr(<<>>)) ELSE FINISH} :
             (/\ action[1] = "dict"
              /\ tool # FINISH
              /\ ~(tool[1] = "str" /\ tool[2] \in DOMAIN tools))
             => /\ Len(chatLog) > k \/ pc = "chat"
                /\ \A hist \in {IF Len(chatLog) > k THEN chatLog[k + 1].messages
                                 ELSE messages} :
                      /\ Len(hist) = 2 + 2 * k
                      /\ hist[Len(hist)].role = "user"
                      /\ Contains(hist[Len(hist)].content, <<"Error: ", "Unknown tool: ">>)
                      /\ Contains(hist[Len(hist)].content, StrOf(tool))
                      /\ \A n \in DOMAIN tools : Contains(hist[Len(hist)].content, n)

\* C35: _parse_action extracts the first JSON object from the text: for a
\* reply that contains two or more brace-delimited JSON objects, or a JSON
\* object plus other brace-delimited fragments in the prose, it returns the
\* first object.
C35_FirstObjectReturned ==
    lastOp.op = "parse_action" =>
       \A text \in {lastOp.text} :
       \A objs \in {{i \in 1..Len(text) : text[i] \in DOMAIN JsonObjects}} :
          (/\ objs # {}
           /\ Cardinality(objs) + Cardinality({i \in 1..Len(text) : text[i] = "{"}) >= 2)
          => /\ exc = "none"
             /\ lastOp.ret = PyDict(JsonObjects[text[Least(objs)]])

\* C36: argument extraction works on the raw goal text, not the lower-cased
\* one: for a goal of the form "run X" the run_program extractor yields
\* command = X, and for "named X" the list_programs extractor yields
\* name_filter = X, with X exactly as written in the goal.
C36_ExtractionKeepsCase ==
    (pc = "done" /\ ~use_ollama)
    => /\ goal = G_run =>
            /\ invokeLog[1].name = PyStr(<<"run_program">>)
            /\ invokeLog[1].kwargs.command = PyStr(<<"N", "o", "t", "e", "p", "a", "d">>)
       /\ goal = G_named =>
            /\ invokeLog[1].name = PyStr(<<"list_programs">>)
            /\ invokeLog[1].kwargs.name_filter = PyStr(<<"C", "h", "r", "o", "m", "e">>)

\* C37: step numbering: in every AgentResult the Steps are numbered
\* consecutively from 1 in the order they were produced, with no gaps and
\* no repeats, in generative mode for every transport script and in
\* rule-based mode.
C37_StepsNumberedFromOne ==
    \A i \in 1..Len(result.steps) : result.steps[i].step_number = i

C37_Witness ==
    /\ pc = "done"
    /\ use_ollama
    /\ result.success
    /\ Len(result.steps) = 2
    /\ result.steps[1].step_number = 1
    /\ result.steps[2].step_number = 2

\* C38: the exhaustion default is applied only in the EXHAUSTED state: a run
\* that ended by a finish action, a transport error or a parse fallback
\* returns the answer set by that terminal transition, never the last Step's
\* output nor the step-limit message.
C38_DefaultOnlyWhenExhausted ==
    (pc = "done" /\ ended \in {"finish", "transport_error", "parse_fallback"})
    => \A last \in {chatLog[Len(chatLog)]} :
       \A raw \in {Strip(last.response)} :
          /\ ended = "transport_error" => result.answer = TransportErrorAnswer(last.error)
          /\ ended = "parse_fallback" => result.answer = PyStr(raw)
          /\ ended = "finish" =>
                result.answer = DictGet(DictGet(ParseAction(raw)[2], "args",
                                                PyDict(EmptyDict))[2], "answer", PyStr(raw))
          /\ result.answer # PyStr(StepLimitMessage)
          /\ result.steps # <<>> =>
                (result.answer # PyStr(result.steps[Len(result.steps)].result.output)
                   \/ result.answer = PyStr(raw))

\* C39: the rule list is consistent with the default registry: every tool
\* named by a rule of _RULES, and the fallback tool system_snapshot, is
\* registered by ToolRegistry(register_defaults=True), and the arguments
\* built by _extract_args contain every parameter that tool declares as
\* required, so a rule-based invocation against the default registry never
\* fails as an unknown tool or with a missing required parameter.
C39_RulesMatchDefaultRegistry ==
    /\ pc = "idle" =>
          /\ <<"system_snapshot">> \in DOMAIN DefaultRegistry
          /\ \A p \in 1..Len(DefaultRegistry[<<"system_snapshot">>].params) :
                ~DefaultRegistry[<<"system_snapshot">>].params[p].required
          /\ \A i \in 1..Len(RULES) :
                /\ <<RULES[i].tool>> \in DOMAIN DefaultRegistry
                /\ \A tool \in {DefaultRegistry[<<RULES[i].tool>>]}, g \in Goals :
                   \A args \in {ExtractArgs(RULES[i].tool, g)} :
                      \A p \in 1..Len(tool.params) :
                         tool.params[p].required => tool.params[p].name \in DOMAIN args
    /\ (pc \in {"returning", "done"} /\ ~use_ollama /\ tools = DefaultRegistry) =>
          /\ invokeLog[1].name[2] \in DOMAIN tools
          /\ \A tool \in {tools[invokeLog[1].name[2]]} :
                \A p \in 1..Len(tool.params) :
                   tool.params[p].required => tool.params[p].name \in DOMAIN invokeLog[1].kwargs
          /\ invokeLog[1].outcome.exc = "none"
          /\ \A ret \in {invokeLog[1].outcome.ret} :
                /\ ~Contains(ret.error, <<"Unknown tool: ">>)
                /\ ~Contains(ret.error, <<"Missing required parameter: ">>)
                /\ invokeLog[1].outcome.called

C39_Witness ==
    /\ pc = "done"
    /\ ~use_ollama
    /\ tools = DefaultRegistry
    /\ goal = G_write
    /\ invokeLog[1].name = PyStr(<<"write_file">>)
    /\ DOMAIN invokeLog[1].kwargs = {"path", "content"}
    /\ invokeLog[1].outcome.called
    /\ invokeLog[1].outcome.ret.success

\* C40: runs are independent and deterministic: each execute call starts
\* from a fresh AgentResult and a fresh conversation history, so two calls
\* on the same Agent given the same goal, the same probe outcome, the same
\* transport replies and the same tool results return the same answer,
\* success flag and Step sequence, regardless of what the other call did.
C40_RunsDeterministic ==
    LET Replies_(f) == [i \in 1..Len(f.chatLog) |->
                          <<f.chatLog[i].response, f.chatLog[i].error>>]
        Results_(f) == [i \in 1..Len(f.invokeLog) |-> f.invokeLog[i].outcome]
        Started(f) == f.pc \in {"chat", "rules"} /\ f.chatLog = <<>> /\ f.invokeLog = <<>>
    IN /\ \A f \in {Frame, other} :
             Started(f) =>
                /\ f.result = [goal |-> f.goal, answer |-> PyStr(<<>>), steps |-> <<>>,
                               success |-> TRUE]
                /\ f.use_ollama => (Len(f.messages) = 2 /\ f.messages[2].content = f.goal)
                /\ ~f.use_ollama => f.messages = <<>>
       /\ (/\ pc \in {"done", "raised"}
           /\ other.pc = pc
           /\ other.goal = goal
           /\ other.use_ollama = use_ollama
           /\ Replies_(other) = Replies_(Frame)
           /\ Results_(other) = Results_(Frame))
          => /\ other.result.answer = result.answer
             /\ other.result.success = result.success
             /\ other.result.steps = result.steps
             /\ other.exc = exc

C40_Witness ==
    /\ pc = "done"
    /\ other.pc = "done"
    /\ use_ollama
    /\ other.use_ollama
    /\ other.goal = goal
    /\ Len(chatLog) = 2
    /\ ended = "finish"
    /\ Len(result.steps) = 1
    /\ ~result.steps[1].result.success
    /\ other.chatLog = chatLog
    /\ other.invokeLog = invokeLog
    /\ other.result = result
    /\ lastOp.op = "get"

====
